---- MODULE Spec2Model ----
(***************************************************************************)
(* Model of the deployment engine (core/engine.py) and of the self-healing *)
(* daemon (core/healer.py) of git-deploy-healer, against one container     *)
(* runtime.  The runtime is the environment: each of its calls (list, run, *)
(* get, reload, stop, remove, restart) may succeed or raise.               *)
(***************************************************************************)
EXTENDS Integers, Sequences, FiniteSets, TLC

\* ------------------------------------------------------------------ bounds
\* ids the runtime hands out, 1..MaxIds
MaxIds == 3
\* containers that exist before the first call, ids 1..n with n <= MaxInitial
MaxInitial == 2
\* managed containers that exist before the healer's first cycle
MaxManaged == 1
\* seconds the clock can advance while deploy calls are made
MaxClock == 1
\* entries of a port mapping given to the resolvers
MaxEntries == 2
\* seconds the calls of one health_check attempt can take beyond the sleep
MaxDelay == 1
\* threads that call get_db_manager
MaxThreads == 2
\* steps the clock of the API-key check can advance
MaxTicks == 2
\* failed API-key attempts recorded over all remote addresses
MaxFailures == 6

\* --------------------------------------------------------------- constants
\* engine.py:378, the container port deploy uses when none is given
DefaultContainerPort == 8080

Ids == 1..MaxIds
\* the absent id / absent port (Python None); runtime ids start at 1
None == 0
Apps == {"a", "b"}
\* container_port arguments of a call: absent, or a declared port
PortArgs == {None, 3000}
DeployProcs == {"d1"}
\* the check_health invocations on one ContainerHealer, overlapping or not
HealProcs == {"h1", "h2"}
\* the invocation slot the daemon loop runs its cycles in
DaemonProc == "h1"

VARIABLES
  containers,    \* the runtime: id -> [app, status] of every existing container
  nextId,        \* the id the runtime gives to the next container it runs
  clientReady,   \* ContainerEngine._client is not None
  removeFails,   \* ids whose forced remove the runtime would refuse
  dw,            \* per deploy_with_rollback call: its locals and its position
  dp,            \* the last stand-alone deploy call: its outcome
  healing_in_progress,  \* ContainerHealer._healing_in_progress
  healing_lock,  \* ContainerHealer._healing_lock: "free" or its holder
  restart_counter,      \* HEALER_RESTART_COUNTER
  healerClientReady,    \* ContainerHealer._client is not None
  hasEngine,     \* ContainerHealer.engine is set
  ch,            \* per check_health invocation: its locals and its position
  cancelRequested,  \* the invocations whose task got cancel() and not yet
                    \* the CancelledError
  daemon,        \* the task running ContainerHealer.start
  audit,         \* whether the runtime calls of heal are written to ch[h].log
                 \* and the names asked of containers.run to run_names
  now,           \* time.time(), in seconds
  run_names,     \* the names asked of client.containers.run, and whether
                 \* one was asked twice
  pr,            \* one raw port value and what the two resolvers make of it
  auth,          \* api/auth.py: _failed_attempts and the last verify_api_key
  hk,            \* one health_check call: its locals and its position
  db,            \* core/models.py: _db_manager, _db_manager_lock and the
                 \* threads inside get_db_manager,
  settled        \* the runtime has come to answer every call of the healer
                 \* with success (restart, reload, listing, stop, deploy)

\* what the engine and healer calls other than deploy leave alone
auxVars == <<now, pr, auth, hk, db, settled>>

healerVars == <<healing_in_progress, healing_lock, restart_counter,
                healerClientReady, hasEngine, ch, cancelRequested, daemon,
                audit>>
vars == <<containers, nextId, clientReady, removeFails, dw, dp,
          healing_in_progress, healing_lock, restart_counter,
          healerClientReady, hasEngine, ch, cancelRequested, daemon, audit,
          now, run_names, pr, auth, hk, db, settled>>

\* ------------------------------------------------------------ value types
\* Result.error is None or a text; a text is the sequence of its fragments
NoneErr == <<>>
\* str() of an error inside an f-string: None prints as "None"
Fmt(e) == IF e = NoneErr THEN <<"None">> ELSE e
\* a text is non-empty when one of its fragments is
NonEmptyText(e) == \E i \in 1..Len(e) : e[i] # ""

\* a raw port value (container.ports, Result.host_port, the argument of
\* parse_docker_port_mapping): None, an int, a str, a float, a list of binding
\* records, or a dict, given as the sequence of its values in iteration
\* order; a dict value is null or a list of binding records; a binding record
\* has a HostPort text (a sequence of characters) or lacks the field
NoPorts == [kind |-> "none", entries |-> <<>>]
PortsDict(entries) == [kind |-> "dict", entries |-> entries]
IntPort(n) == [kind |-> "int", entries |-> <<>>, num |-> n]
StrPort(t) == [kind |-> "str", entries |-> <<>>, text |-> t]
\* the float n, or n + 0.5 when frac
FloatPort(n, frac) ==
  [kind |-> "float", entries |-> <<>>, num |-> n, frac |-> frac]
ListPort(recs) == [kind |-> "list", entries |-> <<>>, bindings |-> recs]
HostPort(t) == [has |-> TRUE, hp |-> t]
NoHostPort == [has |-> FALSE, hp |-> <<>>]
NullEntry == [null |-> TRUE, bindings |-> <<>>]
Entry(recs) == [null |-> FALSE, bindings |-> recs]
Bound(hostports) ==
  Entry([i \in 1..Len(hostports) |-> HostPort(hostports[i])])
RawPorts ==
  { PortsDict(<<>>),
    PortsDict(<<NullEntry>>),
    PortsDict(<<Bound(<<<<"x">>>>)>>),
    PortsDict(<<NullEntry, Bound(<<<<"8", "0">>>>)>>) }

\* an Optional[int] result, or the exception that left the function
PortNone == [out |-> "none", val |-> 0]
PortSome(n) == [out |-> "int", val |-> n]
PortRaise(exc) == [out |-> "raise", val |-> 0, exc |-> exc]

Digit(c) ==
  CASE c = "0" -> 0 [] c = "1" -> 1 [] c = "2" -> 2 [] c = "3" -> 3
    [] c = "4" -> 4 [] c = "5" -> 5 [] c = "6" -> 6 [] c = "7" -> 7
    [] c = "8" -> 8 [] c = "9" -> 9 [] OTHER -> 0 - 1

IsNumeric(s) == Len(s) > 0 /\ \A i \in 1..Len(s) : Digit(s[i]) >= 0

RECURSIVE StrToInt(_)
StrToInt(s) ==
  IF Len(s) = 0 THEN 0
  ELSE 10 * StrToInt(SubSeq(s, 1, Len(s) - 1)) + Digit(s[Len(s)])

\* int(x): the value, or ValueError for a text that is no number and
\* TypeError for None, a dict or a list
py_int(v) ==
  CASE v.kind = "int" -> PortSome(v.num)
    [] v.kind = "float" -> PortSome(v.num)
    [] v.kind = "str" -> IF IsNumeric(v.text) THEN PortSome(StrToInt(v.text))
                         ELSE PortRaise("ValueError")
    [] OTHER -> PortRaise("TypeError")

\* Result.get_host_port on a dict: the first entry that is a non-empty list
\* whose first record's HostPort converts with int(); None otherwise
RECURSIVE DictHostPort(_)
DictHostPort(entries) ==
  IF Len(entries) = 0 THEN PortNone
  ELSE LET e == Head(entries) IN
       IF ~e.null /\ Len(e.bindings) > 0 /\ e.bindings[1].has
            /\ IsNumeric(e.bindings[1].hp)
       THEN PortSome(StrToInt(e.bindings[1].hp))
       ELSE DictHostPort(Tail(entries))

\* Result.get_host_port, lines 53-92
get_host_port(raw) ==
  CASE raw.kind = "none" -> PortNone
    [] raw.kind = "int" -> PortSome(raw.num)
    [] raw.kind = "str" -> IF IsNumeric(raw.text)
                           THEN PortSome(StrToInt(raw.text)) ELSE PortNone
    [] raw.kind = "dict" -> DictHostPort(raw.entries)
    [] raw.kind = "list" ->
         IF Len(raw.bindings) > 0 /\ raw.bindings[1].has
              /\ IsNumeric(raw.bindings[1].hp)
         THEN PortSome(StrToInt(raw.bindings[1].hp)) ELSE PortNone
    [] OTHER -> PortNone

\* network.py:33, the largest valid port
MaxPort == 65535

\* a validate_port without the except clause
validate_port_uncaught(v) ==
  IF v.kind = "float" /\ v.frac THEN PortNone
  ELSE LET r == py_int(v) IN
       IF r.out = "raise" THEN r
       ELSE IF 1 <= r.val /\ r.val <= MaxPort THEN r ELSE PortNone

\* network.py:28-37
validate_port(v) ==
  IF v.kind = "float" /\ v.frac THEN PortNone
  ELSE LET r == py_int(v) IN
       IF r.out = "raise"
       THEN (IF r.exc \in {"ValueError", "TypeError"} THEN PortNone ELSE r)
       ELSE IF 1 <= r.val /\ r.val <= MaxPort THEN r ELSE PortNone

\* network.py:65-70: the first entry that is a non-empty list whose first
\* record has a HostPort decides, valid or not
RECURSIVE DictFirstHostPort(_)
DictFirstHostPort(entries) ==
  IF Len(entries) = 0 THEN PortNone
  ELSE LET e == Head(entries) IN
       IF ~e.null /\ Len(e.bindings) > 0 /\ e.bindings[1].has
       THEN validate_port(StrPort(e.bindings[1].hp))
       ELSE DictFirstHostPort(Tail(entries))

\* network.py:40-78
parse_docker_port_mapping(ports) ==
  LET validated == validate_port(ports) IN
  IF validated.out # "none" THEN validated
  ELSE CASE ports.kind = "dict" -> DictFirstHostPort(ports.entries)
         [] ports.kind = "list" ->
              IF Len(ports.bindings) > 0 /\ ports.bindings[1].has
              THEN validate_port(StrPort(ports.bindings[1].hp))
              ELSE PortNone
         [] OTHER -> PortNone

\* Result.__init__; line 37 lets an absent container_id fall back to
\* host_port: every outcome built without an id here has no host_port either,
\* so the fallback yields None
Result(status, host_port, error, container_id, container_port) ==
  [status |-> status, host_port |-> host_port, error |-> error,
   container_id |-> container_id, container_port |-> container_port]

NoResult == Result("none", NoPorts, NoneErr, None, None)
\* the call ended by an exception reaching its caller
Raised == Result("raised", NoPorts, NoneErr, None, None)

\* ---------------------------------------------------------------- runtime
Exists(id) == id \in DOMAIN containers

\* the containers labelled app=<app>, running or not (list with all=True)
\* a listing that ignores the label filter
Labelled_any(c, app) == DOMAIN c

Labelled(c, app) == {i \in DOMAIN c : c[i].app = app}

RECURSIVE SetToSeq(_)
SetToSeq(S) ==
  IF S = {} THEN <<>>
  ELSE LET m == CHOOSE x \in S : \A y \in S : x <= y
       IN <<m>> \o SetToSeq(S \ {m})

\* client.containers.run: a new container with the app label
containers_run(c, id, app, st) ==
  [i \in DOMAIN c \cup {id} |->
     IF i = id THEN [app |-> app, status |-> st] ELSE c[i]]

\* c.stop(): the container is no longer running
container_stop(c, id) == [c EXCEPT ![id].status = "exited"]

\* c.remove(force=True): the container is gone
container_remove(c, id) == [i \in DOMAIN c \ {id} |-> c[i]]

\* would the runtime carry out a forced remove of id now
RemoveSucceeds(id) == Exists(id) /\ id \notin removeFails

\* ----------------------------------------------------------------- deploy
\* no name asked of the runtime yet
NoNames == [names |-> {}, clash |-> FALSE]

\* line 385: f"{app_name}-{int(time.time())}"
container_name(app, t) == <<app, t>>

\* line 404: client.containers.run(name=...) is called with the name
run_requested(rn, name) ==
  IF audit THEN [names |-> rn.names \cup {name},
                 clash |-> rn.clash \/ name \in rn.names]
  ELSE rn

\* deploy, lines 381-444: the outcome, given what the runtime answered
deploy_result(id, cport, runOk, reloadOk, gaugeOk, raw) ==
  LET port == IF cport = None THEN DefaultContainerPort ELSE cport IN
  IF ~runOk THEN Result("failed", NoPorts, <<"run failed">>, None, port)
  ELSE IF ~reloadOk
       THEN Result("failed", NoPorts, <<"reload failed">>, None, port)
       ELSE Result("ok", raw, NoneErr, id, port)

\* what one run of deploy met: the faults of the runtime and an unresolved port
deploy_faults(runOk, reloadOk, gaugeOk, raw) ==
  IF ~runOk THEN {"run"}
  ELSE IF ~reloadOk THEN {"reload"}
       ELSE (IF gaugeOk THEN {} ELSE {"gauge"})
            \cup (IF get_host_port(raw) = PortNone THEN {"port"} ELSE {})

\* -------------------------------------------------- deploy_with_rollback
\* the locals of one call before it starts
DwIdle ==
  [pc |-> "idle", app |-> "a", cport |-> None, old |-> <<>>, oi |-> 1,
   res |-> NoResult, newc |-> None, hc |-> "none", ret |-> NoResult,
   stops |-> {}, removes |-> {}, faults |-> {}, atStart |-> {}]

\* a handler that drops the inner error text
deployment_error_dropped(res) == <<"Deployment failed: ">>

\* line 307: DeploymentError(f"Deployment failed: {result.error}")
deployment_error(res) == <<"Deployment failed: ">> \o Fmt(res.error)

\* line 313: DeploymentError(f"Failed to get container: {e}")
fetch_error == <<"Failed to get container: ", "get failed">>

\* line 318: HealthCheckError("Health check failed")
health_error == <<"Health check failed">>

\* a handler that reports the bare error, without saying it rolled back
rollback_result_bare(e) == Result("failed", NoPorts, e, None, None)

\* line 348: the outcome the rollback handler returns for the error e
rollback_result(e) ==
  Result("failed", NoPorts, <<"Deployment rolled back: ">> \o e, None, None)

\* lines 288-294: the call starts; nothing has been listed yet
deploy_with_rollback_call(p, app, cport) ==
  /\ dw[p].pc = "idle"
  /\ nextId <= MaxIds
  /\ dw' = [dw EXCEPT ![p] = [DwIdle EXCEPT !.pc = "list", !.app = app,
                                 !.cport = cport,
                                 !.atStart =
                                   {i \in DOMAIN containers :
                                      containers[i].app = app}]]
  /\ UNCHANGED healerVars
  /\ UNCHANGED <<containers, nextId, clientReady, removeFails, dp>>
  /\ UNCHANGED auxVars
  /\ UNCHANGED run_names

\* line 291 with list_containers, lines 144-152 and _ensure_client, 111-116:
\* the client is obtained outside any try; a failed listing yields []
dwr_list_containers(p) ==
  /\ dw[p].pc = "list"
  /\ \E obtainOk \in BOOLEAN, listOk \in BOOLEAN :
       IF ~clientReady /\ ~obtainOk
       THEN /\ dw' = [dw EXCEPT ![p].pc = "done", ![p].ret = Raised,
                                ![p].faults = @ \cup {"client"}]
            /\ UNCHANGED clientReady
       ELSE /\ clientReady' = TRUE
            /\ dw' = [dw EXCEPT
                 ![p].pc = "deploy",
                 ![p].old = IF listOk
                            THEN SetToSeq(Labelled(containers, dw[p].app))
                            ELSE <<>>,
                 ![p].faults = IF listOk THEN @ ELSE @ \cup {"list"}]
  /\ UNCHANGED healerVars
  /\ UNCHANGED <<containers, nextId, removeFails, dp>>
  /\ UNCHANGED auxVars
  /\ UNCHANGED run_names

\* lines 298-307: deploy runs; a failed outcome raises DeploymentError, which
\* the handler of lines 334-348 turns into its own outcome (new_container is
\* still None, so nothing is stopped)
dwr_deploy(p) ==
  /\ dw[p].pc = "deploy"
  /\ nextId <= MaxIds
  /\ \E runOk \in BOOLEAN, reloadOk \in BOOLEAN, gaugeOk \in BOOLEAN,
        raw \in RawPorts, st \in {"running", "exited"} :
       LET res == deploy_result(nextId, dw[p].cport, runOk, reloadOk, gaugeOk, raw)
           flt == deploy_faults(runOk, reloadOk, gaugeOk, raw) \cap {"run", "reload"}
       IN /\ containers' = IF runOk
                           THEN containers_run(containers, nextId, dw[p].app, st)
                           ELSE containers
          /\ nextId' = IF runOk THEN nextId + 1 ELSE nextId
          /\ dw' = [dw EXCEPT
               ![p].res = res,
               ![p].faults = @ \cup flt,
               ![p].pc = IF res.status = "ok" THEN "fetch" ELSE "done",
               ![p].ret = IF res.status = "ok" THEN @
                          ELSE rollback_result(deployment_error(res))]
          /\ run_names' = run_requested(run_names,
                                        container_name(dw[p].app, now))
  /\ UNCHANGED healerVars
  /\ UNCHANGED <<clientReady, removeFails, dp>>
  /\ UNCHANGED auxVars

\* lines 310-313 and 334-348: the new container object is fetched by id; when
\* that fails the handler runs with new_container = None
dwr_fetch(p) ==
  /\ dw[p].pc = "fetch"
  /\ \E getOk \in BOOLEAN :
       IF getOk /\ Exists(dw[p].res.container_id)
       THEN dw' = [dw EXCEPT ![p].pc = "health",
                             ![p].newc = dw[p].res.container_id]
       ELSE dw' = [dw EXCEPT ![p].pc = "done",
                             ![p].faults = @ \cup {"fetch"},
                             ![p].ret = rollback_result(fetch_error)]
  /\ UNCHANGED healerVars
  /\ UNCHANGED <<containers, nextId, clientReady, removeFails, dp>>
  /\ UNCHANGED auxVars
  /\ UNCHANGED run_names

\* lines 215-259 as deploy_with_rollback sees them: health_check answers true
\* only for an existing container whose refreshed status is running; it
\* answers false when the window passes without such an attempt
health_check_may_pass(id) == Exists(id) /\ containers[id].status = "running"

\* a cleanup that ends at the first old container it could not stop or remove
after_cleanup_aborting(d) ==
  IF d.oi > Len(d.old) \/ d.faults \cap {"stop", "remove"} # {}
  THEN [d EXCEPT !.pc = "done", !.ret = d.res]
  ELSE [d EXCEPT !.pc = "cleanup_stop"]

\* after the last old container: line 332 returns deploy's outcome
after_cleanup(d) ==
  IF d.oi > Len(d.old) THEN [d EXCEPT !.pc = "done", !.ret = d.res]
  ELSE [d EXCEPT !.pc = "cleanup_stop"]

\* a cleanup that lists the application's containers again when it begins
cleanup_targets_relisted(c, d) == SetToSeq(Labelled(c, d.app) \ {d.newc})

\* line 323: the cleanup goes through old_containers, the list of line 291
cleanup_targets(c, d) == d.old

\* lines 317-322
dwr_health_check(p) ==
  /\ dw[p].pc = "health"
  /\ \E healthy \in BOOLEAN :
       /\ healthy => health_check_may_pass(dw[p].newc)
       /\ dw' = [dw EXCEPT ![p] =
            IF healthy
            THEN after_cleanup([dw[p] EXCEPT
                                  !.hc = "pass", !.oi = 1,
                                  !.old = cleanup_targets(containers, dw[p])])
            ELSE [dw[p] EXCEPT !.hc = "fail", !.pc = "rollback_stop"]]
  /\ UNCHANGED healerVars
  /\ UNCHANGED <<containers, nextId, clientReady, removeFails, dp>>
  /\ UNCHANGED auxVars
  /\ UNCHANGED run_names

\* lines 322-329 with stop_container, 175-184: the stop of one old container;
\* when it raises, the except of line 328 skips the remove of that container
dwr_cleanup_stop(p) ==
  /\ dw[p].pc = "cleanup_stop"
  /\ LET id == dw[p].old[dw[p].oi] IN
     \E stopOk \in BOOLEAN :
       IF stopOk /\ Exists(id)
       THEN /\ containers' = container_stop(containers, id)
            /\ dw' = [dw EXCEPT ![p].stops = @ \cup {id},
                                ![p].pc = "cleanup_remove"]
       ELSE /\ UNCHANGED containers
            /\ dw' = [dw EXCEPT ![p] =
                 after_cleanup([dw[p] EXCEPT !.stops = @ \cup {id},
                                             !.faults = @ \cup {"stop"},
                                             !.oi = @ + 1])]
  /\ UNCHANGED healerVars
  /\ UNCHANGED <<nextId, clientReady, removeFails, dp>>
  /\ UNCHANGED auxVars
  /\ UNCHANGED run_names

\* lines 327-329 with remove_container, 186-195
dwr_cleanup_remove(p) ==
  /\ dw[p].pc = "cleanup_remove"
  /\ LET id == dw[p].old[dw[p].oi]
         ok == RemoveSucceeds(id)
     IN /\ containers' = IF ok THEN container_remove(containers, id)
                         ELSE containers
        /\ dw' = [dw EXCEPT ![p] =
             after_cleanup([dw[p] EXCEPT
                !.removes = @ \cup {id},
                !.faults = IF ok THEN @ ELSE @ \cup {"remove"},
                !.oi = @ + 1])]
  /\ UNCHANGED healerVars
  /\ UNCHANGED <<nextId, clientReady, removeFails, dp>>
  /\ UNCHANGED auxVars
  /\ UNCHANGED run_names

\* lines 338-348: the stop of the new container; when it raises, the except
\* of line 345 skips its remove and the handler returns
dwr_rollback_stop(p) ==
  /\ dw[p].pc = "rollback_stop"
  /\ LET id == dw[p].newc IN
     \E stopOk \in BOOLEAN :
       IF stopOk /\ Exists(id)
       THEN /\ containers' = container_stop(containers, id)
            /\ dw' = [dw EXCEPT ![p].stops = @ \cup {id},
                                ![p].pc = "rollback_remove"]
       ELSE /\ UNCHANGED containers
            /\ dw' = [dw EXCEPT ![p].stops = @ \cup {id},
                                ![p].faults = @ \cup {"stop"},
                                ![p].pc = "done",
                                ![p].ret = rollback_result(health_error)]
  /\ UNCHANGED healerVars
  /\ UNCHANGED <<nextId, clientReady, removeFails, dp>>
  /\ UNCHANGED auxVars
  /\ UNCHANGED run_names

\* lines 344-348
dwr_rollback_remove(p) ==
  /\ dw[p].pc = "rollback_remove"
  /\ LET id == dw[p].newc
         ok == RemoveSucceeds(id)
     IN /\ containers' = IF ok THEN container_remove(containers, id)
                         ELSE containers
        /\ dw' = [dw EXCEPT ![p].removes = @ \cup {id},
                            ![p].faults = IF ok THEN @ ELSE @ \cup {"remove"},
                            ![p].pc = "done",
                            ![p].ret = rollback_result(health_error)]
  /\ UNCHANGED healerVars
  /\ UNCHANGED <<nextId, clientReady, removeFails, dp>>
  /\ UNCHANGED auxVars
  /\ UNCHANGED run_names

\* a KeyboardInterrupt or SystemExit raised inside the call once deploy has
\* created the new container (lines 310-318, e.g. in the time.sleep of
\* health_check): these are no Exception, so neither handler of lines 334-352
\* runs and there is no finally; the exception leaves the call
dwr_interrupt(p) ==
  /\ dw[p].pc \in {"fetch", "health"}
  /\ dw' = [dw EXCEPT ![p].pc = "done", ![p].ret = Raised,
                      ![p].faults = @ \cup {"interrupt"}]
  /\ UNCHANGED healerVars
  /\ UNCHANGED <<containers, nextId, clientReady, removeFails, dp>>
  /\ UNCHANGED auxVars
  /\ UNCHANGED run_names

\* ------------------------------------------------- deploy, called directly
\* lines 374-444 (main.py:30, healer.py:175): self.client is read at line 374,
\* before the try of line 381
deploy(app, cport) ==
  /\ nextId <= MaxIds
  /\ \E obtainOk \in BOOLEAN, runOk \in BOOLEAN, reloadOk \in BOOLEAN,
        gaugeOk \in BOOLEAN, raw \in RawPorts, st \in {"running", "exited"} :
       IF ~clientReady /\ ~obtainOk
       THEN /\ dp' = [ret |-> Raised, faults |-> {"client"}, cport |-> cport]
            /\ UNCHANGED <<containers, nextId, clientReady, run_names>>
       ELSE /\ clientReady' = TRUE
            /\ run_names' = run_requested(run_names, container_name(app, now))
            /\ containers' = IF runOk
                             THEN containers_run(containers, nextId, app, st)
                             ELSE containers
            /\ nextId' = IF runOk THEN nextId + 1 ELSE nextId
            /\ dp' = [ret |-> deploy_result(nextId, cport, runOk, reloadOk,
                                            gaugeOk, raw),
                      faults |-> deploy_faults(runOk, reloadOk, gaugeOk, raw),
                      cport |-> cport]
  /\ UNCHANGED healerVars
  /\ UNCHANGED <<removeFails, dw>>
  /\ UNCHANGED auxVars

\* ------------------------------------------------------------- the healer
\* the locals of one check_health invocation before it starts
ChIdle ==
  [pc |-> "idle", listing |-> <<>>, idx |-> 1, healed |-> <<>>,
   success |-> FALSE, raised |-> FALSE, skipped |-> {},
   listed |-> "none", results |-> <<>>, log |-> {}]
\* (skipped: the ids line 95 passed over in this invocation; listed: how the
\* listing of line 70 ended; results: each heal call of this invocation with
\* what it returned; log: the runtime calls of heal and how they ended)

\* the positions at which the heal call of an invocation is executing
HealPcs == {"heal_restart", "heal_sleep", "heal_reload", "heal_redeploy"}
InHeal(h) == ch[h].pc \in HealPcs
\* the container the invocation is working on
Cur(h) == ch[h].listing[ch[h].idx]

\* line 70: the containers labelled managed_by=pypaas, with the status each
\* object carries until it is reloaded
Listing(c) == [k \in 1..Cardinality(DOMAIN c) |->
                 LET id == SetToSeq(DOMAIN c)[k]
                 IN [id |-> id, status |-> c[id].status, app |-> c[id].app]]

\* a skip that takes only running for healthy
healthy_status_running_only(st) == st = "running"

\* line 86: no healing for these statuses
healthy_status(st) == st \in {"running", "restarting"}

\* a guard that never finds the id
already_healing_unchecked(id) == FALSE

\* line 91: the id is already being healed
already_healing(id) == id \in healing_in_progress

\* a mark that is never set
registry_add_skipped(reg, id) == reg

\* line 98
registry_add(reg, id) == reg \cup {id}

\* a release that forgets the id
registry_discard_skipped(reg, id) == reg

\* line 108
registry_discard(reg, id) == reg \ {id}

\* a lock that stays with the invocation that took it
lock_kept(h) == h

\* lines 90 and 107: leaving the async with block releases the lock
lock_released(h) == "free"

\* the calls heal made, kept when the audit is on
Audit(h, events) == IF audit THEN ch[h].log \cup events ELSE ch[h].log

\* a failed listing examined as if it had succeeded
listed_cycle_unguarded(c, listOk, cs) ==
  [c EXCEPT !.pc = "examine", !.listing = Listing(cs),
            !.listed = IF listOk THEN "ok" ELSE "failed"]

\* lines 69-75: the listing of the cycle, or the return of [] when it raised
listed_cycle(c, listOk, cs) ==
  IF listOk
  THEN [c EXCEPT !.pc = "examine", !.listing = Listing(cs), !.listed = "ok"]
  ELSE [c EXCEPT !.pc = "done", !.listed = "failed"]

\* a heal that trusts the restart without reading the status
restart_healed_unread(reloadOk, present, status) == reloadOk /\ present

\* lines 145-148: the container was reloaded and is running
restart_healed(reloadOk, present, status) ==
  reloadOk /\ present /\ status = "running"

\* a redeploy that counts every returned outcome as healed
redeploy_healed_any(res) == res.status # "raised"

\* lines 175-190: the redeploy healed the container iff its outcome is ok; a
\* deploy that raised is caught at line 187
redeploy_healed(res) == res.status = "ok"

\* a counter that counts every heal
counter_inc_always(n, healedNow) == n + 1

\* lines 149-150 and 178-179: HEALER_RESTART_COUNTER.inc() before return True
counter_inc(n, healedNow) == IF healedNow THEN n + 1 ELSE n

\* a result list that takes every container heal was called on
healed_append_always(healed, success, id) == Append(healed, id)

\* lines 102-104: if success: healed.append(container)
healed_append(healed, success, id) ==
  IF success THEN Append(healed, id) ELSE healed

\* heal returns to check_health (lines 152, 181, 190, 126): its value, and
\* the call with its value in the results of the invocation
heal_returns(c, id, success) ==
  [c EXCEPT !.pc = "finally", !.success = success,
            !.results = Append(@, [id |-> id,
                                   ret |-> IF success THEN "true" ELSE "false"])]

\* a CancelledError that skips the finally clause
heal_cancelled_unreleased(c, id) ==
  [c EXCEPT !.pc = "done", !.raised = TRUE,
            !.results = Append(@, [id |-> id, ret |-> "cancelled"])]

\* heal is left by a CancelledError (line 142)
heal_cancelled(c, id) ==
  [c EXCEPT !.pc = "finally", !.raised = TRUE,
            !.results = Append(@, [id |-> id, ret |-> "cancelled"])]

\* an Exception out of heal that nothing catches
heal_raised_uncaught(c, id) ==
  [c EXCEPT !.pc = "finally", !.raised = TRUE,
            !.results = Append(@, [id |-> id, ret |-> "error"])]

\* heal is left by an Exception (raised outside its try, lines 124-128, or
\* by a replaced heal): the finally of line 105 runs, line 110 catches it and
\* the loop goes on with the next container
heal_raised(c, id) ==
  [c EXCEPT !.pc = "finally", !.success = FALSE,
            !.results = Append(@, [id |-> id, ret |-> "error"])]

\* a listing that holds its first container twice (two objects, one id)
Doubled(l) == IF Len(l) = 0 THEN l ELSE <<l[1]>> \o l

\* what a call of the healer on the runtime can answer: success, or failure
\* as long as the runtime has not settled
Answers == IF settled THEN {TRUE} ELSE BOOLEAN

\* the status of a container once it was started or restarted: a process
\* that exits at once leaves it exited
Started == IF settled THEN {"running"} ELSE {"running", "exited"}

\* lines 61-67 (called by start, line 55, or directly)
check_health(h) ==
  /\ ch[h].pc = "idle"
  /\ ch' = [ch EXCEPT ![h] = [ChIdle EXCEPT !.pc = "list"]]
  /\ UNCHANGED <<containers, nextId, clientReady, removeFails, dw, dp,
                 healing_in_progress, healing_lock, restart_counter,
                 healerClientReady, hasEngine>>
  /\ UNCHANGED <<cancelRequested, daemon, audit>>
  /\ UNCHANGED auxVars
  /\ UNCHANGED run_names

\* lines 69-75 with the client property, 41-47: a client that cannot be
\* obtained or a listing that fails ends the cycle with []
ch_list(h) ==
  /\ ch[h].pc = "list"
  /\ \E obtainOk \in Answers, listOk \in Answers :
       IF ~healerClientReady /\ ~obtainOk
       THEN /\ ch' = [ch EXCEPT ![h] = listed_cycle(ch[h], FALSE, containers)]
            /\ UNCHANGED healerClientReady
       ELSE /\ healerClientReady' = TRUE
            /\ ch' = [ch EXCEPT ![h] = listed_cycle(ch[h], listOk, containers)]
  /\ UNCHANGED <<containers, nextId, clientReady, removeFails, dw, dp,
                 healing_in_progress, healing_lock, restart_counter, hasEngine>>
  /\ UNCHANGED <<cancelRequested, daemon, audit>>
  /\ UNCHANGED auxVars
  /\ UNCHANGED run_names

\* line 70 when the runtime answers with two objects of one container
ch_list_dup(h) ==
  /\ ch[h].pc = "list"
  /\ healerClientReady
  /\ ch' = [ch EXCEPT ![h] =
       [listed_cycle(ch[h], TRUE, containers) EXCEPT !.listing = Doubled(@)]]
  /\ UNCHANGED <<containers, nextId, clientReady, removeFails, dw, dp,
                 healing_in_progress, healing_lock, restart_counter,
                 healerClientReady, hasEngine>>
  /\ UNCHANGED <<cancelRequested, daemon, audit>>
  /\ UNCHANGED auxVars
  /\ UNCHANGED run_names

\* line 102 raising an Exception instead of returning
heal_error(h) ==
  /\ ch[h].pc = "heal_restart"
  /\ ch' = [ch EXCEPT ![h] = heal_raised(ch[h], Cur(h).id)]
  /\ UNCHANGED <<containers, nextId, clientReady, removeFails, dw, dp,
                 healing_in_progress, healing_lock, restart_counter,
                 healerClientReady, hasEngine>>
  /\ UNCHANGED <<cancelRequested, daemon, audit>>
  /\ UNCHANGED auxVars
  /\ UNCHANGED run_names

\* lines 77-87 and 113: the next container of the listing, or the return
ch_examine(h) ==
  /\ ch[h].pc = "examine"
  /\ ch' = [ch EXCEPT ![h] =
       IF ch[h].idx > Len(ch[h].listing) THEN [ch[h] EXCEPT !.pc = "done"]
       ELSE IF healthy_status(Cur(h).status)
            THEN [ch[h] EXCEPT !.idx = @ + 1]
            ELSE [ch[h] EXCEPT !.pc = "lock"]]
  /\ UNCHANGED <<containers, nextId, clientReady, removeFails, dw, dp,
                 healing_in_progress, healing_lock, restart_counter,
                 healerClientReady, hasEngine>>
  /\ UNCHANGED <<cancelRequested, daemon, audit>>
  /\ UNCHANGED auxVars
  /\ UNCHANGED run_names

\* line 90: async with self._healing_lock
ch_lock(h) ==
  /\ ch[h].pc = "lock"
  /\ healing_lock = "free"
  /\ healing_lock' = h
  /\ ch' = [ch EXCEPT ![h].pc = "insert"]
  /\ UNCHANGED <<containers, nextId, clientReady, removeFails, dw, dp,
                 healing_in_progress, restart_counter, healerClientReady,
                 hasEngine>>
  /\ UNCHANGED <<cancelRequested, daemon, audit>>
  /\ UNCHANGED auxVars
  /\ UNCHANGED run_names

\* lines 91-98: under the lock, skip the container when its id is in the
\* registry, else insert the id; the lock is released on both ways out
ch_insert(h) ==
  /\ ch[h].pc = "insert"
  /\ healing_lock = h
  /\ healing_lock' = lock_released(h)
  /\ IF already_healing(Cur(h).id)
     THEN /\ ch' = [ch EXCEPT ![h].pc = "examine", ![h].idx = @ + 1,
                              ![h].skipped = @ \cup {Cur(h).id}]
          /\ UNCHANGED healing_in_progress
     ELSE /\ healing_in_progress' = registry_add(healing_in_progress, Cur(h).id)
          /\ ch' = [ch EXCEPT ![h].pc = "heal_restart", ![h].success = FALSE]
  /\ UNCHANGED <<containers, nextId, clientReady, removeFails, dw, dp,
                 restart_counter, healerClientReady, hasEngine>>
  /\ UNCHANGED <<cancelRequested, daemon, audit>>
  /\ UNCHANGED auxVars
  /\ UNCHANGED run_names

\* line 139: what container.restart() can do: NotFound only for a container
\* that is gone, any other error as long as the runtime fails
restart_outcomes(id) ==
  IF Exists(id)
  THEN {"restart_ok"} \cup (IF settled THEN {} ELSE {"restart_error"})
  ELSE {"restart_notfound"} \cup (IF settled THEN {} ELSE {"restart_error"})

\* heal, lines 137-139 and 154-160: restart; not-found (the container is
\* gone) or any other error leads to the redeploy path
heal_restart(h) ==
  /\ ch[h].pc = "heal_restart"
  /\ \E out \in restart_outcomes(Cur(h).id), st \in Started :
       IF out = "restart_ok"
       THEN /\ containers' = [containers EXCEPT ![Cur(h).id].status = st]
            /\ ch' = [ch EXCEPT ![h].pc = "heal_sleep",
                                ![h].log = Audit(h, {out})]
       ELSE /\ UNCHANGED containers
            /\ ch' = [ch EXCEPT ![h].pc = "heal_redeploy",
                                ![h].log = Audit(h, {out})]
  /\ UNCHANGED <<nextId, clientReady, removeFails, dw, dp,
                 healing_in_progress, healing_lock, restart_counter,
                 healerClientReady, hasEngine>>
  /\ UNCHANGED <<cancelRequested, daemon, audit>>
  /\ UNCHANGED auxVars
  /\ UNCHANGED run_names

\* Task.cancel() on the task running the invocation (api/server.py:127 for
\* the daemon): the task is suspended, which it is only in a sleep
task_cancel(h) ==
  /\ \/ ch[h].pc = "heal_sleep"
     \/ h = DaemonProc /\ daemon.pc = "sleep"
  /\ h \notin cancelRequested
  /\ cancelRequested' = cancelRequested \cup {h}
  /\ daemon' = IF h = DaemonProc /\ daemon.pc # "off"
               THEN [daemon EXCEPT !.cancelled = TRUE] ELSE daemon
  /\ UNCHANGED <<containers, nextId, clientReady, removeFails, dw, dp,
                 healing_in_progress, healing_lock, restart_counter,
                 healerClientReady, hasEngine, ch, audit>>
  /\ UNCHANGED auxVars
  /\ UNCHANGED run_names

\* line 142: await asyncio.sleep(2), the point at which a cancellation of the
\* task is delivered; CancelledError is no Exception and leaves heal
heal_sleep(h) ==
  /\ ch[h].pc = "heal_sleep"
  /\ ch' = [ch EXCEPT ![h] =
       IF h \in cancelRequested THEN heal_cancelled(ch[h], Cur(h).id)
       ELSE [ch[h] EXCEPT !.pc = "heal_reload"]]
  /\ cancelRequested' = cancelRequested \ {h}
  /\ UNCHANGED <<containers, nextId, clientReady, removeFails, dw, dp,
                 healing_in_progress, healing_lock, restart_counter,
                 healerClientReady, hasEngine>>
  /\ UNCHANGED <<daemon, audit>>
  /\ UNCHANGED auxVars
  /\ UNCHANGED run_names

\* lines 145-152: reload; running counts as healed
heal_reload(h) ==
  /\ ch[h].pc = "heal_reload"
  /\ \E reloadOk \in Answers :
       LET id == Cur(h).id
           status == IF Exists(id) THEN containers[id].status ELSE "gone"
           seen == IF ~reloadOk \/ ~Exists(id) THEN {"reload_error"}
                   ELSE IF status = "running" THEN {"reload_running"}
                   ELSE {"reload_not_running"}
           healedNow == restart_healed(reloadOk, Exists(id), status)
       IN /\ restart_counter' = counter_inc(restart_counter, healedNow)
          /\ ch' = [ch EXCEPT ![h] =
               IF healedNow
               THEN [heal_returns(ch[h], id, TRUE) EXCEPT !.log = Audit(h, seen)]
               ELSE [ch[h] EXCEPT !.pc = "heal_redeploy",
                                  !.log = Audit(h, seen)]]
  /\ UNCHANGED <<containers, nextId, clientReady, removeFails, dw, dp,
                 healing_in_progress, healing_lock, healerClientReady,
                 hasEngine>>
  /\ UNCHANGED <<cancelRequested, daemon, audit>>
  /\ UNCHANGED auxVars
  /\ UNCHANGED run_names

\* lines 168-172: best-effort stop and forced remove of the old container; a
\* stop that raises skips the remove
heal_stop_remove(c, id, stopOk) ==
  IF id \in DOMAIN c /\ stopOk
  THEN (IF id \in removeFails THEN container_stop(c, id)
        ELSE container_remove(c, id))
  ELSE c

\* a redeploy guard that does not look at the app label
redeploy_possible_unlabelled(app) == hasEngine

\* line 163: self.engine and app_name and app_name != "unknown"
redeploy_possible(app) == hasEngine /\ app # "unknown"

\* lines 162-190: the redeploy path; engine.deploy(app, "<app>:latest") may
\* raise when the engine's client cannot be obtained, which line 187 catches;
\* heal reads only the status of the outcome, so one port shape stands for all
heal_redeploy(h) ==
  /\ ch[h].pc = "heal_redeploy"
  /\ IF ~redeploy_possible(Cur(h).app)
     THEN /\ ch' = [ch EXCEPT ![h] = heal_returns(ch[h], Cur(h).id, FALSE)]
          /\ UNCHANGED <<containers, nextId, clientReady, restart_counter,
                         run_names>>
     ELSE \E stopOk \in Answers, obtainOk \in Answers, runOk \in Answers,
             reloadOk \in Answers, st \in Started :
            LET gaugeOk == TRUE
                raw == PortsDict(<<>>)
                c1 == heal_stop_remove(containers, Cur(h).id, stopOk)
                canRun == runOk /\ nextId <= MaxIds
                res == IF ~clientReady /\ ~obtainOk THEN Raised
                       ELSE deploy_result(nextId, None, canRun, reloadOk,
                                          gaugeOk, raw)
                ran == res.status # "raised" /\ canRun
            IN /\ clientReady' = (clientReady \/ obtainOk)
               /\ containers' = IF ran
                                THEN containers_run(c1, nextId, Cur(h).app, st)
                                ELSE c1
               /\ nextId' = IF ran THEN nextId + 1 ELSE nextId
               /\ restart_counter' =
                    counter_inc(restart_counter, redeploy_healed(res))
               /\ run_names' =
                    IF res.status = "raised" THEN run_names
                    ELSE run_requested(run_names,
                                       container_name(Cur(h).app, now))
               /\ ch' = [ch EXCEPT ![h] =
                    [heal_returns(ch[h], Cur(h).id, redeploy_healed(res))
                       EXCEPT !.log = Audit(h,
                         {IF ~(stopOk /\ Exists(Cur(h).id)) THEN "stop_error"
                          ELSE IF Cur(h).id \in removeFails
                               THEN "remove_error" ELSE "remove_ok",
                          IF res.status = "ok" THEN "deploy_ok"
                          ELSE IF res.status = "raised" THEN "deploy_raised"
                          ELSE "deploy_failed"})]]
  /\ UNCHANGED <<removeFails, dw, dp, healing_in_progress, healing_lock,
                 healerClientReady, hasEngine>>
  /\ UNCHANGED <<cancelRequested, daemon, audit>>
  /\ UNCHANGED auxVars

\* lines 105-107: the finally clause takes the lock
ch_finally(h) ==
  /\ ch[h].pc = "finally"
  /\ healing_lock = "free"
  /\ healing_lock' = h
  /\ ch' = [ch EXCEPT ![h].pc = "discard"]
  /\ UNCHANGED <<containers, nextId, clientReady, removeFails, dw, dp,
                 healing_in_progress, restart_counter, healerClientReady,
                 hasEngine>>
  /\ UNCHANGED <<cancelRequested, daemon, audit>>
  /\ UNCHANGED auxVars
  /\ UNCHANGED run_names

\* lines 103-104 and 108: the id leaves the registry; a healed container
\* joins the result; a CancelledError goes on to the caller
ch_discard(h) ==
  /\ ch[h].pc = "discard"
  /\ healing_lock = h
  /\ healing_lock' = lock_released(h)
  /\ healing_in_progress' = registry_discard(healing_in_progress, Cur(h).id)
  /\ ch' = [ch EXCEPT ![h] =
       IF ch[h].raised THEN [ch[h] EXCEPT !.pc = "done"]
       ELSE [ch[h] EXCEPT
               !.pc = "examine",
               !.healed = healed_append(@, ch[h].success, Cur(h).id),
               !.idx = @ + 1]]
  /\ UNCHANGED <<containers, nextId, clientReady, removeFails, dw, dp,
                 restart_counter, healerClientReady, hasEngine>>
  /\ UNCHANGED <<cancelRequested, daemon, audit>>
  /\ UNCHANGED auxVars
  /\ UNCHANGED run_names

\* ------------------------------------------------- the daemon, lines 49-59
\* the task of ContainerHealer.start before it is created (cancelled: cancel()
\* was called on it; survived: the failures of the cycles it has run)
DaemonOff == [pc |-> "off", cancelled |-> FALSE, survived |-> {}]

\* the failures of the cycle an invocation has run
cycle_failures(c) ==
  (IF c.listed = "failed" THEN {"list"} ELSE {})
  \cup (IF \E k \in 1..Len(c.results) : c.results[k].ret = "false"
        THEN {"heal"} ELSE {})

\* a loop that gives up after a cycle with a failure
after_cycle_strict(d, c) ==
  IF c.raised \/ cycle_failures(c) # {}
  THEN [d EXCEPT !.pc = "exited", !.survived = @ \cup cycle_failures(c)]
  ELSE [d EXCEPT !.pc = "sleep"]

\* lines 55-59: check_health returned, or raised an Exception that line 56
\* catches, and the loop sleeps; a CancelledError is not caught there
after_cycle(d, c) ==
  IF c.raised THEN [d EXCEPT !.pc = "exited"]
  ELSE [d EXCEPT !.pc = "sleep", !.survived = @ \cup cycle_failures(c)]

\* api/server.py:119 creates the task; lines 51-55: the first cycle begins
start ==
  /\ daemon.pc = "off"
  /\ ch[DaemonProc].pc = "idle"
  /\ daemon' = [daemon EXCEPT !.pc = "cycle"]
  /\ ch' = [ch EXCEPT ![DaemonProc] = [ChIdle EXCEPT !.pc = "list"]]
  /\ UNCHANGED <<containers, nextId, clientReady, removeFails, dw, dp,
                 healing_in_progress, healing_lock, restart_counter,
                 healerClientReady, hasEngine, cancelRequested, audit>>
  /\ UNCHANGED auxVars
  /\ UNCHANGED run_names

\* lines 55-57: the cycle of the daemon is over
start_after_cycle ==
  /\ daemon.pc = "cycle"
  /\ ch[DaemonProc].pc = "done"
  /\ daemon' = after_cycle(daemon, ch[DaemonProc])
  /\ UNCHANGED <<containers, nextId, clientReady, removeFails, dw, dp,
                 healing_in_progress, healing_lock, restart_counter,
                 healerClientReady, hasEngine, ch, cancelRequested, audit>>
  /\ UNCHANGED auxVars
  /\ UNCHANGED run_names

\* lines 59 and 54-55: await asyncio.sleep(self.interval), where a
\* cancellation ends the loop, and the next cycle
start_sleep ==
  /\ daemon.pc = "sleep"
  /\ IF DaemonProc \in cancelRequested
     THEN /\ daemon' = [daemon EXCEPT !.pc = "exited"]
          /\ UNCHANGED ch
     ELSE /\ daemon' = [daemon EXCEPT !.pc = "cycle"]
          /\ ch' = [ch EXCEPT ![DaemonProc] = [ChIdle EXCEPT !.pc = "list"]]
  /\ cancelRequested' = cancelRequested \ {DaemonProc}
  /\ UNCHANGED <<containers, nextId, clientReady, removeFails, dw, dp,
                 healing_in_progress, healing_lock, restart_counter,
                 healerClientReady, hasEngine, audit>>
  /\ UNCHANGED auxVars
  /\ UNCHANGED run_names

\* from here on the runtime answers the healer's calls with success
runtime_settles ==
  /\ ~settled
  /\ settled' = TRUE
  /\ UNCHANGED <<containers, nextId, clientReady, removeFails, dw, dp,
                 healing_in_progress, healing_lock, restart_counter,
                 healerClientReady, hasEngine, ch, cancelRequested, daemon,
                 audit, now, run_names, pr, auth, hk, db>>

\* ------------------------------------------------------- port resolution
\* HostPort texts: empty, no number, zero, a port, the largest port, too large
Texts ==
  { <<>>, <<"x">>, <<"0">>, <<"8", "0">>, <<"6", "5", "5", "3", "5">>,
    <<"6", "5", "5", "3", "6">> }
Recs == {NoHostPort} \cup {HostPort(t) : t \in Texts}
Entries ==
  {NullEntry, Entry(<<>>), Entry(<<NoHostPort, HostPort(<<"8", "0">>)>>)}
    \cup {Entry(<<r>>) : r \in Recs}
\* every shape a caller can hand over
PortInputs ==
  {NoPorts}
    \cup {IntPort(n) : n \in {0 - 1, 0, 1, 80, MaxPort, MaxPort + 1}}
    \cup {StrPort(t) : t \in Texts}
    \cup {FloatPort(n, f) : n \in {0, 80, MaxPort + 1}, f \in BOOLEAN}
    \cup {ListPort(<<>>)} \cup {ListPort(<<r>>) : r \in Recs}
    \cup {PortsDict(e) : e \in UNION {[1..n -> Entries] : n \in 0..MaxEntries}}

\* no value resolved yet
PrIdle == [raw |-> NoPorts, got |-> PortNone, parsed |-> PortNone,
           called |-> {}]

\* lines 41-92 (called by to_dict, line 98, and by deploy, line 428)
Result_get_host_port ==
  /\ "get" \notin pr.called
  /\ pr' = [pr EXCEPT !.got = get_host_port(pr.raw),
                      !.called = @ \cup {"get"}]
  /\ UNCHANGED <<containers, nextId, clientReady, removeFails, dw, dp,
                 healing_in_progress, healing_lock, restart_counter,
                 healerClientReady, hasEngine, ch, cancelRequested, daemon,
                 audit, now, run_names, auth, hk,
                 db, settled>>

\* network.py:40-78 (called by api/server.py:200)
resolve_port ==
  /\ "parse" \notin pr.called
  /\ pr' = [pr EXCEPT !.parsed = parse_docker_port_mapping(pr.raw),
                      !.called = @ \cup {"parse"}]
  /\ UNCHANGED <<containers, nextId, clientReady, removeFails, dw, dp,
                 healing_in_progress, healing_lock, restart_counter,
                 healerClientReady, hasEngine, ch, cancelRequested, daemon,
                 audit, now, run_names, auth, hk,
                 db, settled>>

\* ------------------------------------------------------------ api/auth.py
\* auth.py:24-25
MAX_FAILED_ATTEMPTS == 5
RATE_LIMIT_WINDOW == 300
\* the clock advances by half a window
Tick == RATE_LIMIT_WINDOW \div 2
\* remote addresses, and the key presented: none, a wrong one, API_KEY
Identifiers == {"ip1", "ip2"}
Keys == {"none", "wrong", "right"}
\* auth.py:55, the remote_addr of a call that passes none
DefaultAddr == "unknown"
\* the clients that send requests to the routes guarded by require_api_key
Clients == {"c1", "c2"}

\* by is the client whose request made the call, "none" for a direct call
NoCall == [called |-> FALSE, id |-> "ip1", key |-> "none", ret |-> FALSE,
           n |-> 0, by |-> "none"]
\* attempts is _failed_attempts (a missing identifier is the empty list);
\* history keeps every failure time ever recorded; configured tells whether
\* the API_KEY environment variable is set; last is the latest call with n,
\* the failures of its identifier inside the window when it was made;
\* failedBy are the clients whose requests have failed the key check
AuthIdle ==
  [clock |-> 0, configured |-> TRUE,
   attempts |-> [i \in Identifiers \cup {DefaultAddr} |-> <<>>],
   history |-> [i \in Identifiers \cup {DefaultAddr} |-> <<>>],
   last |-> NoCall, failedBy |-> {}]

\* line 33-35: [t for t in attempts if now - t < RATE_LIMIT_WINDOW]
RECURSIVE in_window(_, _)
in_window(ts, t) ==
  IF Len(ts) = 0 THEN <<>>
  ELSE (IF t - Head(ts) < RATE_LIMIT_WINDOW THEN <<Head(ts)>> ELSE <<>>)
         \o in_window(Tail(ts), t)

RECURSIVE recorded(_)
recorded(ids) ==
  IF ids = {} THEN 0
  ELSE LET i == CHOOSE x \in ids : TRUE
       IN Len(auth.history[i]) + recorded(ids \ {i})

\* a limit that is one attempt late
rate_limited_late(attempts) == Len(attempts) > MAX_FAILED_ATTEMPTS

\* line 40
rate_limited(attempts) == Len(attempts) >= MAX_FAILED_ATTEMPTS

\* lines 72-89: the answer once the rate limit has let the call pass
key_valid(key, configured) == key = "right" /\ configured

\* verify_api_key, lines 55-89, with _check_rate_limit, 28-43, and
\* _record_failed_attempt, 47-52: the state after the call that client by
\* caused
verified(key, remote_addr, by) ==
  LET pruned == in_window(auth.attempts[remote_addr], auth.clock)
      limited == rate_limited(pruned)
      valid == ~limited /\ key_valid(key, auth.configured)
      failed == ~limited /\ ~valid
      n == Len(in_window(auth.history[remote_addr], auth.clock))
  IN [auth EXCEPT
        !.attempts[remote_addr] =
           IF failed THEN Append(pruned, auth.clock) ELSE pruned,
        !.history[remote_addr] =
           IF failed THEN Append(@, auth.clock) ELSE @,
        !.failedBy = IF failed /\ by # "none" THEN @ \cup {by} ELSE @,
        !.last = [called |-> TRUE, id |-> remote_addr, key |-> key,
                  ret |-> valid, n |-> n, by |-> by]]

\* the call records no failure beyond the bound
within_bound(next) ==
  next.history # auth.history
    => recorded(Identifiers \cup {DefaultAddr}) < MaxFailures

\* verify_api_key called with the address of the caller
verify_api_key(key, remote_addr) ==
  /\ within_bound(verified(key, remote_addr, "none"))
  /\ auth' = verified(key, remote_addr, "none")
  /\ UNCHANGED <<containers, nextId, clientReady, removeFails, dw, dp,
                 healing_in_progress, healing_lock, restart_counter,
                 healerClientReady, hasEngine, ch, cancelRequested,
                 daemon, audit, now, run_names, pr, hk, db,
                 settled>>

\* api/middleware/auth.py:17-20: verify_api_key(api_key), with no
\* remote_addr, for the request of any client; False becomes a 403
require_api_key_result(client, key) == verified(key, DefaultAddr, client)

require_api_key(client, key) ==
  /\ within_bound(require_api_key_result(client, key))
  /\ auth' = require_api_key_result(client, key)
  /\ UNCHANGED <<containers, nextId, clientReady, removeFails, dw, dp,
                 healing_in_progress, healing_lock, restart_counter,
                 healerClientReady, hasEngine, ch, cancelRequested,
                 daemon, audit, now, run_names, pr, hk, db,
                 settled>>

\* time.time() moves on between calls
auth_tick ==
  /\ auth.clock < MaxTicks * Tick
  /\ auth' = [auth EXCEPT !.clock = @ + Tick]
  /\ UNCHANGED <<containers, nextId, clientReady, removeFails, dw, dp,
                 healing_in_progress, healing_lock, restart_counter,
                 healerClientReady, hasEngine, ch, cancelRequested, daemon,
                 audit, now, run_names, pr, hk,
                 db, settled>>

\* ------------------------------------------------ core/models.py singleton
DbThreads == 1..MaxThreads
\* one thread before its call: lk is the lock object its with statement took
ThIdle == [pc |-> "idle", lk |-> None, ret |-> None]
\* lines 241-242: lock is _db_manager_lock and manager _db_manager, None or
\* the number of the object; locks and made count the Lock and
\* DatabaseManager objects created; held are the locks some thread holds
DbIdle ==
  [lock |-> None, manager |-> None, locks |-> 0, made |-> 0, held |-> {},
   th |-> [t \in DbThreads |-> ThIdle]]

\* what get_db_manager leaves alone
dbFrame == <<containers, nextId, clientReady, removeFails, dw, dp,
             healing_in_progress, healing_lock, restart_counter,
             healerClientReady, hasEngine, ch, cancelRequested, daemon,
             audit, now, run_names, pr, auth, hk, settled>>

\* lines 260-265: the call begins and tests _db_manager_lock is None
get_db_manager(t) ==
  /\ db.th[t].pc = "idle"
  /\ db' = [db EXCEPT !.th[t].pc =
              IF db.lock = None THEN "make_lock" ELSE "acquire"]
  /\ UNCHANGED dbFrame

\* line 266: _db_manager_lock = threading.Lock()
gdm_make_lock(t) ==
  /\ db.th[t].pc = "make_lock"
  /\ db' = [db EXCEPT !.locks = @ + 1, !.lock = db.locks + 1,
                      !.th[t].pc = "acquire"]
  /\ UNCHANGED dbFrame

\* line 269: with _db_manager_lock, on the lock object the global names now
gdm_acquire(t) ==
  /\ db.th[t].pc = "acquire"
  /\ db.lock \notin db.held
  /\ db' = [db EXCEPT !.held = @ \cup {db.lock}, !.th[t].lk = db.lock,
                      !.th[t].pc = "test"]
  /\ UNCHANGED dbFrame

\* line 270 with reset = False
gdm_test(t) ==
  /\ db.th[t].pc = "test"
  /\ db' = [db EXCEPT !.th[t].pc =
              IF db.manager = None THEN "create" ELSE "release"]
  /\ UNCHANGED dbFrame

\* lines 279-291 with a database URL at hand
gdm_create(t) ==
  /\ db.th[t].pc = "create"
  /\ db' = [db EXCEPT !.made = @ + 1, !.manager = db.made + 1,
                      !.th[t].pc = "release"]
  /\ UNCHANGED dbFrame

\* the end of the with block
gdm_release(t) ==
  /\ db.th[t].pc = "release"
  /\ db' = [db EXCEPT !.held = @ \ {db.th[t].lk}, !.th[t].pc = "return"]
  /\ UNCHANGED dbFrame

\* line 293
gdm_return(t) ==
  /\ db.th[t].pc = "return"
  /\ db' = [db EXCEPT !.th[t].ret = db.manager, !.th[t].pc = "done"]
  /\ UNCHANGED dbFrame

\* ------------------------------------------------------------ health_check
\* engine.py:198, the defaults of timeout and interval
DefaultTimeout == 30
DefaultInterval == 2
\* the windows and pauses a caller passes
Timeouts == {1, 5, DefaultTimeout}
Intervals == {1, DefaultInterval}

\* no call yet; elapsed is time.time() - start_time, status the status the
\* latest attempt read after its reload, published whether that attempt found
\* an entry to probe
HkIdle ==
  [pc |-> "idle", hasId |-> FALSE, timeout |-> DefaultTimeout,
   interval |-> DefaultInterval, elapsed |-> 0, attempts |-> 0,
   ret |-> "none", log |-> {}, published |-> FALSE, probed |-> {},
   status |-> "none"]

\* container.ports as one attempt can find it
HkPorts ==
  { <<>>, <<NullEntry>>, <<Entry(<<NoHostPort>>)>>,
    <<Bound(<<<<"8", "0">>>>)>>,
    <<Bound(<<<<"8", "0">>>>), Bound(<<<<"8", "1">>>>)>> }
\* requests.get: a status below 500, one of 500 or above, RequestException
ProbeOutcomes == {"lt500", "ge500", "neterr"}

\* lines 232-234: the entry is a non-empty list whose first record has a
\* non-empty HostPort
Probeable(e) ==
  ~e.null /\ Len(e.bindings) > 0 /\ e.bindings[1].has
    /\ Len(e.bindings[1].hp) > 0

\* a probe loop that answers healthy only after a probe
RECURSIVE probe_walk_probed(_, _, _)
probe_walk_probed(es, outs, i) ==
  IF i > Len(es) THEN [ret |-> "false", probed |-> {}]
  ELSE IF Probeable(es[i])
       THEN IF outs[i] = "lt500" THEN [ret |-> "true", probed |-> {"lt500"}]
            ELSE LET r == probe_walk_probed(es, outs, i + 1)
                 IN [r EXCEPT !.probed = @ \cup {outs[i]}]
       ELSE probe_walk_probed(es, outs, i + 1)

\* lines 231-251: the probes of one attempt on a running container; a status
\* below 500 returns True, any other outcome moves on to the next entry, and
\* after the last entry line 251 returns True
RECURSIVE probe_walk(_, _, _)
probe_walk(es, outs, i) ==
  IF i > Len(es) THEN [ret |-> "true", probed |-> {}]
  ELSE IF Probeable(es[i])
       THEN IF outs[i] = "lt500" THEN [ret |-> "true", probed |-> {"lt500"}]
            ELSE LET r == probe_walk(es, outs, i + 1)
                 IN [r EXCEPT !.probed = @ \cup {outs[i]}]
       ELSE probe_walk(es, outs, i + 1)

\* a reload error that leaves the call
attempt_failed_abort(h, ev, adv) ==
  [h EXCEPT !.attempts = @ + 1, !.log = @ \cup {ev},
            !.pc = IF ev = "reload_error" THEN "done" ELSE @,
            !.ret = IF ev = "reload_error" THEN "raised" ELSE @,
            !.status = IF ev = "not_running" THEN "exited" ELSE "none",
            !.published = FALSE, !.probed = {}]

\* lines 223-226 and 253-256: a failed attempt is logged, the call sleeps
\* interval and goes back to the loop test; adv is the time that has passed
attempt_failed(h, ev, adv) ==
  [h EXCEPT !.attempts = @ + 1, !.log = @ \cup {ev},
            !.elapsed = @ + adv, !.published = FALSE, !.probed = {},
            !.status = IF ev = "not_running" THEN "exited" ELSE "none"]

\* lines 211-215
health_check_call(timeout, interval, hasId) ==
  /\ hk.pc = "idle"
  /\ hk' = IF hasId
           THEN [HkIdle EXCEPT !.pc = "poll", !.hasId = TRUE,
                               !.timeout = timeout, !.interval = interval]
           ELSE [HkIdle EXCEPT !.pc = "done", !.ret = "false",
                               !.timeout = timeout, !.interval = interval]
  /\ UNCHANGED <<containers, nextId, clientReady, removeFails, dw, dp,
                 healing_in_progress, healing_lock, restart_counter,
                 healerClientReady, hasEngine, ch, cancelRequested, daemon,
                 audit, now, run_names, pr, auth,
                 db, settled>>

\* lines 217-256: the loop test holds and one attempt is made
hk_attempt ==
  /\ hk.pc = "poll"
  /\ hk.elapsed < hk.timeout
  /\ \E reloadOk \in BOOLEAN, status \in {"running", "exited"},
        ports \in HkPorts, d \in 0..MaxDelay :
     \E outs \in [1..Len(ports) -> ProbeOutcomes] :
       hk' = IF ~reloadOk
             THEN attempt_failed(hk, "reload_error", hk.interval + d)
             ELSE IF status # "running"
             THEN attempt_failed(hk, "not_running", hk.interval + d)
             ELSE LET r == probe_walk(ports, outs, 1) IN
                  [hk EXCEPT !.attempts = @ + 1, !.pc = "done",
                             !.status = "running",
                             !.ret = r.ret, !.probed = r.probed,
                             !.published =
                               \E i \in 1..Len(ports) : Probeable(ports[i])]
  /\ UNCHANGED <<containers, nextId, clientReady, removeFails, dw, dp,
                 healing_in_progress, healing_lock, restart_counter,
                 healerClientReady, hasEngine, ch, cancelRequested, daemon,
                 audit, now, run_names, pr, auth,
                 db, settled>>

\* lines 217 and 258-259: the loop test fails
hk_timeout ==
  /\ hk.pc = "poll"
  /\ hk.elapsed >= hk.timeout
  /\ hk' = [hk EXCEPT !.pc = "done", !.ret = "false"]
  /\ UNCHANGED <<containers, nextId, clientReady, removeFails, dw, dp,
                 healing_in_progress, healing_lock, restart_counter,
                 healerClientReady, hasEngine, ch, cancelRequested, daemon,
                 audit, now, run_names, pr, auth,
                 db, settled>>


\* ---------------------------------------------------------------- the clock
\* a second passes (time.time() as read at engine.py:385)
clock_tick ==
  /\ now < MaxClock
  /\ now' = now + 1
  /\ UNCHANGED <<containers, nextId, clientReady, removeFails, dw, dp,
                 healing_in_progress, healing_lock, restart_counter,
                 healerClientReady, hasEngine, ch, cancelRequested, daemon,
                 audit, run_names, pr, auth, hk,
                 db, settled>>

\* ------------------------------------------------------------ the machine
InitContainers ==
  UNION { [1..n -> [app : Apps, status : {"running", "exited"}]] :
          n \in 0..MaxInitial }

\* the runtime refuses the forced remove of at most one container
RemoveFaults == {{}} \cup {{i} : i \in Ids}

\* the clock at zero, no name asked for, no port resolved, no key verified,
\* no health check begun
InitAux ==
  /\ now = 0
  /\ run_names = NoNames
  /\ pr = PrIdle
  /\ auth = AuthIdle
  /\ hk = HkIdle
  /\ db = DbIdle
  /\ settled = FALSE

\* no call has started: engine and healer as constructed
InitCalls ==
  /\ nextId = Cardinality(DOMAIN containers) + 1
  /\ dw = [p \in DeployProcs |-> DwIdle]
  /\ dp = [ret |-> NoResult, faults |-> {}, cport |-> None]
  /\ healing_in_progress = {}
  /\ healing_lock = "free"
  /\ restart_counter = 0
  /\ ch = [h \in HealProcs |-> ChIdle]
  /\ cancelRequested = {}
  /\ daemon = DaemonOff
  /\ InitAux

\* an engine with an injected client (engine.py:108) or none yet
Init ==
  /\ containers \in InitContainers
  /\ clientReady \in BOOLEAN
  /\ removeFails \in RemoveFaults
  /\ healerClientReady = FALSE
  /\ hasEngine = TRUE
  /\ audit = FALSE
  /\ InitCalls

\* a healer (healer.py:28-36) over the managed containers of one application
InitHealer ==
  /\ containers \in
       UNION { [1..n -> [app : {"a"}, status : {"running", "exited"}]] :
               n \in 0..MaxManaged }
  /\ clientReady \in BOOLEAN
  /\ removeFails = {}
  /\ healerClientReady \in BOOLEAN
  /\ hasEngine \in BOOLEAN
  /\ audit = FALSE
  /\ InitCalls

\* one deploy_with_rollback call against the runtime
NextRollback ==
  \/ \E p \in DeployProcs, app \in Apps, cport \in PortArgs :
       deploy_with_rollback_call(p, app, cport)
  \/ \E p \in DeployProcs : dwr_list_containers(p)
  \/ \E p \in DeployProcs : dwr_deploy(p)
  \/ \E p \in DeployProcs : dwr_fetch(p)
  \/ \E p \in DeployProcs : dwr_health_check(p)
  \/ \E p \in DeployProcs : dwr_cleanup_stop(p)
  \/ \E p \in DeployProcs : dwr_cleanup_remove(p)
  \/ \E p \in DeployProcs : dwr_rollback_stop(p)
  \/ \E p \in DeployProcs : dwr_rollback_remove(p)

SpecRollback == Init /\ [][NextRollback]_vars

\* one deploy_with_rollback call that can be interrupted
NextRollbackInterrupt ==
  \/ NextRollback
  \/ \E p \in DeployProcs : dwr_interrupt(p)

SpecRollbackInterrupt == Init /\ [][NextRollbackInterrupt]_vars

\* two deploy_with_rollback calls for one application that overlap in any
\* way, on an engine whose client is there; no healer at work
DeployPair == {"d1", "d2"}

InitRollbackPair ==
  /\ containers \in
       UNION { [1..n -> [app : {"a"}, status : {"running"}]] : n \in 0..1 }
  /\ clientReady = TRUE
  /\ removeFails = {}
  /\ healerClientReady = FALSE
  /\ hasEngine = TRUE
  /\ audit = FALSE
  /\ nextId = Cardinality(DOMAIN containers) + 1
  /\ dw = [p \in DeployPair |-> DwIdle]
  /\ dp = [ret |-> NoResult, faults |-> {}, cport |-> None]
  /\ healing_in_progress = {}
  /\ healing_lock = "free"
  /\ restart_counter = 0
  /\ ch = [h \in HealProcs |-> ChIdle]
  /\ cancelRequested = {}
  /\ daemon = DaemonOff
  /\ InitAux

NextRollbackPair ==
  \/ \E p \in DeployPair : deploy_with_rollback_call(p, "a", None)
  \/ \E p \in DeployPair : dwr_list_containers(p)
  \/ \E p \in DeployPair : dwr_deploy(p)
  \/ \E p \in DeployPair : dwr_fetch(p)
  \/ \E p \in DeployPair : dwr_health_check(p)
  \/ \E p \in DeployPair : dwr_cleanup_stop(p)
  \/ \E p \in DeployPair : dwr_cleanup_remove(p)
  \/ \E p \in DeployPair : dwr_rollback_stop(p)
  \/ \E p \in DeployPair : dwr_rollback_remove(p)

SpecRollbackPair == InitRollbackPair /\ [][NextRollbackPair]_vars

\* direct deploy calls against the runtime
NextDeploy == \E app \in Apps, cport \in PortArgs : deploy(app, cport)

SpecDeploy == Init /\ [][NextDeploy]_vars

\* direct deploy calls while the clock runs, with the names they ask for
InitNames ==
  /\ containers \in InitContainers
  /\ clientReady \in BOOLEAN
  /\ removeFails = {}
  /\ healerClientReady = FALSE
  /\ hasEngine = TRUE
  /\ audit = TRUE
  /\ InitCalls

NextNames ==
  \/ \E app \in Apps, cport \in PortArgs : deploy(app, cport)
  \/ clock_tick

SpecNames == InitNames /\ [][NextNames]_vars

\* no runtime, no deploy call and no healer at work
InitStill ==
  /\ containers = <<>>
  /\ clientReady = FALSE
  /\ removeFails = {}
  /\ healerClientReady = FALSE
  /\ hasEngine = TRUE
  /\ audit = FALSE
  /\ nextId = 1
  /\ dw = [p \in DeployProcs |-> DwIdle]
  /\ dp = [ret |-> NoResult, faults |-> {}, cport |-> None]
  /\ healing_in_progress = {}
  /\ healing_lock = "free"
  /\ restart_counter = 0
  /\ ch = [h \in HealProcs |-> ChIdle]
  /\ cancelRequested = {}
  /\ daemon = DaemonOff
  /\ now = 0
  /\ run_names = NoNames

\* one raw port value handed to both resolvers
InitPorts ==
  /\ InitStill
  /\ pr \in {[PrIdle EXCEPT !.raw = r] : r \in PortInputs}
  /\ auth = AuthIdle
  /\ hk = HkIdle
  /\ db = DbIdle
  /\ settled = FALSE

\* one health_check call; the loop is sequential code and time.sleep
\* returns, so a step that can be taken is taken
InitHealth ==
  /\ InitStill
  /\ pr = PrIdle
  /\ auth = AuthIdle
  /\ hk = HkIdle
  /\ db = DbIdle
  /\ settled = FALSE

\* API-key checks from the remote addresses, with API_KEY set or not
InitAuth ==
  /\ InitStill
  /\ pr = PrIdle
  /\ auth \in {[AuthIdle EXCEPT !.configured = c] : c \in BOOLEAN}
  /\ hk = HkIdle
  /\ db = DbIdle
  /\ settled = FALSE

\* threads calling get_db_manager in a process that has no manager yet; the
\* lock exists when an earlier manager was disposed of (lines 296-308)
InitDb ==
  /\ InitStill
  /\ pr = PrIdle
  /\ auth = AuthIdle
  /\ hk = HkIdle
  /\ db \in {DbIdle, [DbIdle EXCEPT !.lock = 1, !.locks = 1]}
  /\ settled = FALSE

NextDb ==
  \/ \E t \in DbThreads : get_db_manager(t)
  \/ \E t \in DbThreads : gdm_make_lock(t)
  \/ \E t \in DbThreads : gdm_acquire(t)
  \/ \E t \in DbThreads : gdm_test(t)
  \/ \E t \in DbThreads : gdm_create(t)
  \/ \E t \in DbThreads : gdm_release(t)
  \/ \E t \in DbThreads : gdm_return(t)

SpecDb == InitDb /\ [][NextDb]_vars

NextAuth ==
  \/ \E key \in Keys, remote_addr \in Identifiers :
       verify_api_key(key, remote_addr)
  \/ auth_tick

SpecAuth == InitAuth /\ [][NextAuth]_vars

\* requests of the clients to routes guarded by require_api_key
NextRequire ==
  \/ \E client \in Clients, key \in Keys : require_api_key(client, key)
  \/ auth_tick

SpecRequire == InitAuth /\ [][NextRequire]_vars

NextHealth ==
  \/ \E t \in Timeouts, i \in Intervals, hasId \in BOOLEAN :
       health_check_call(t, i, hasId)
  \/ hk_attempt
  \/ hk_timeout

SpecHealth == InitHealth /\ [][NextHealth]_vars /\ WF_vars(NextHealth)

NextPorts ==
  \/ Result_get_host_port
  \/ resolve_port

SpecPorts == InitPorts /\ [][NextPorts]_vars

\* check_health invocations of one healer, overlapping in any way
NextHealer ==
  \/ \E h \in HealProcs : check_health(h)
  \/ \E h \in HealProcs : ch_list(h)
  \/ \E h \in HealProcs : ch_examine(h)
  \/ \E h \in HealProcs : ch_lock(h)
  \/ \E h \in HealProcs : ch_insert(h)
  \/ \E h \in HealProcs : heal_restart(h)
  \/ \E h \in HealProcs : task_cancel(h)
  \/ \E h \in HealProcs : heal_sleep(h)
  \/ \E h \in HealProcs : heal_reload(h)
  \/ \E h \in HealProcs : heal_redeploy(h)
  \/ \E h \in HealProcs : ch_finally(h)
  \/ \E h \in HealProcs : ch_discard(h)

SpecHealer == InitHealer /\ [][NextHealer]_vars

\* one check_health invocation on its own, over up to two containers, with
\* listings that repeat a container and heals that raise
InitCycle ==
  /\ containers \in
       UNION { [1..n -> [app : {"a"}, status : {"running", "exited"}]] :
               n \in 0..(MaxManaged + 1) }
  /\ clientReady \in BOOLEAN
  /\ removeFails = {}
  /\ healerClientReady \in BOOLEAN
  /\ hasEngine \in BOOLEAN
  /\ audit = FALSE
  /\ InitCalls

NextCycle ==
  \/ check_health(DaemonProc)
  \/ ch_list(DaemonProc)
  \/ ch_list_dup(DaemonProc)
  \/ ch_examine(DaemonProc)
  \/ ch_lock(DaemonProc)
  \/ ch_insert(DaemonProc)
  \/ heal_restart(DaemonProc)
  \/ heal_error(DaemonProc)
  \/ heal_sleep(DaemonProc)
  \/ heal_reload(DaemonProc)
  \/ heal_redeploy(DaemonProc)
  \/ ch_finally(DaemonProc)
  \/ ch_discard(DaemonProc)

SpecCycle == InitCycle /\ [][NextCycle]_vars

\* a healer over a pair of managed containers, for invocations that heal
\* different containers
InitHealerPair ==
  /\ containers \in [{1, 2} -> [app : {"a"}, status : {"running", "exited"}]]
  /\ clientReady \in BOOLEAN
  /\ removeFails = {}
  /\ healerClientReady \in BOOLEAN
  /\ hasEngine \in BOOLEAN
  /\ audit = FALSE
  /\ InitCalls

SpecHealerPair == InitHealerPair /\ [][NextHealer]_vars

\* the daemon alone: the cycles of start in its invocation slot
NextDaemon ==
  \/ start
  \/ start_after_cycle
  \/ start_sleep
  \/ task_cancel(DaemonProc)
  \/ ch_list(DaemonProc)
  \/ ch_examine(DaemonProc)
  \/ ch_lock(DaemonProc)
  \/ ch_insert(DaemonProc)
  \/ heal_restart(DaemonProc)
  \/ heal_sleep(DaemonProc)
  \/ heal_reload(DaemonProc)
  \/ heal_redeploy(DaemonProc)
  \/ ch_finally(DaemonProc)
  \/ ch_discard(DaemonProc)

\* the healer the server creates (api/server.py:118) over managed containers
\* of one application in any status
InitDaemon ==
  /\ containers \in
       UNION { [1..n -> [app : {"a"},
                         status : {"running", "restarting", "exited"}]] :
               n \in 0..MaxManaged }
  /\ clientReady \in BOOLEAN
  /\ removeFails = {}
  /\ healerClientReady = FALSE
  /\ hasEngine = TRUE
  /\ audit = FALSE
  /\ InitCalls

SpecDaemon == InitDaemon /\ [][NextDaemon]_vars

\* one cycle of the daemon and one deploy_with_rollback call for the same
\* application at any relative pace, on a runtime that holds one running
\* instance of the application
InitDaemonDeploy ==
  /\ containers = (1 :> [app |-> "a", status |-> "running"])
  /\ clientReady = TRUE
  /\ removeFails = {}
  /\ healerClientReady = TRUE
  /\ hasEngine = TRUE
  /\ audit = FALSE
  /\ InitCalls

NextDaemonDeploy ==
  \/ start
  \/ start_after_cycle
  \/ ch_list(DaemonProc)
  \/ ch_examine(DaemonProc)
  \/ ch_lock(DaemonProc)
  \/ ch_insert(DaemonProc)
  \/ heal_restart(DaemonProc)
  \/ heal_sleep(DaemonProc)
  \/ heal_reload(DaemonProc)
  \/ heal_redeploy(DaemonProc)
  \/ ch_finally(DaemonProc)
  \/ ch_discard(DaemonProc)
  \/ \E p \in DeployProcs : deploy_with_rollback_call(p, "a", None)
  \/ \E p \in DeployProcs : dwr_list_containers(p)
  \/ \E p \in DeployProcs : dwr_deploy(p)
  \/ \E p \in DeployProcs : dwr_fetch(p)
  \/ \E p \in DeployProcs : dwr_health_check(p)
  \/ \E p \in DeployProcs : dwr_cleanup_stop(p)
  \/ \E p \in DeployProcs : dwr_cleanup_remove(p)
  \/ \E p \in DeployProcs : dwr_rollback_stop(p)
  \/ \E p \in DeployProcs : dwr_rollback_remove(p)

SpecDaemonDeploy == InitDaemonDeploy /\ [][NextDaemonDeploy]_vars

\* the daemon loop left to run, never cancelled and scheduled fairly, over a
\* runtime that fails at first and settles at some point
DaemonLoop ==
  \/ start
  \/ start_after_cycle
  \/ start_sleep
  \/ ch_list(DaemonProc)
  \/ ch_examine(DaemonProc)
  \/ ch_lock(DaemonProc)
  \/ ch_insert(DaemonProc)
  \/ heal_restart(DaemonProc)
  \/ heal_sleep(DaemonProc)
  \/ heal_reload(DaemonProc)
  \/ heal_redeploy(DaemonProc)
  \/ ch_finally(DaemonProc)
  \/ ch_discard(DaemonProc)

NextConverge ==
  \/ DaemonLoop
  \/ runtime_settles

SpecConverge ==
  /\ InitDaemon
  /\ [][NextConverge]_vars
  /\ WF_vars(DaemonLoop)
  /\ WF_vars(runtime_settles)

\* one direct call heal(container) (healer.py:115) on the object of a
\* container that is still there or already gone, with or without an app
\* label, by a healer with or without an engine
InitHeal ==
  /\ \E present \in BOOLEAN, app \in {"a", "unknown"},
        st \in {"running", "exited"} :
       /\ containers = IF present THEN (1 :> [app |-> app, status |-> st])
                       ELSE <<>>
       /\ ch = [h \in HealProcs |->
                 IF h = DaemonProc
                 THEN [ChIdle EXCEPT
                         !.pc = "heal_restart",
                         !.listing = <<[id |-> 1, status |-> "exited",
                                        app |-> app]>>]
                 ELSE ChIdle]
  /\ nextId = 2
  /\ clientReady \in BOOLEAN
  /\ removeFails \in {{}, {1}}
  /\ healerClientReady = TRUE
  /\ hasEngine \in BOOLEAN
  /\ audit = TRUE
  /\ dw = [p \in DeployProcs |-> DwIdle]
  /\ dp = [ret |-> NoResult, faults |-> {}, cport |-> None]
  /\ healing_in_progress = {}
  /\ healing_lock = "free"
  /\ restart_counter = 0
  /\ cancelRequested = {}
  /\ daemon = DaemonOff
  /\ InitAux

NextHeal ==
  \/ \E h \in HealProcs : heal_restart(h)
  \/ \E h \in HealProcs : task_cancel(h)
  \/ \E h \in HealProcs : heal_sleep(h)
  \/ \E h \in HealProcs : heal_reload(h)
  \/ \E h \in HealProcs : heal_redeploy(h)

SpecHeal == InitHeal /\ [][NextHeal]_vars

\* ------------------------------------------------------------ properties
Returned(p) == dw[p].pc = "done"
OldSet(p) == {dw[p].old[i] : i \in 1..Len(dw[p].old)}
Touched(p) == dw[p].stops \cup dw[p].removes
OldUntouched(p) ==
  \A i \in OldSet(p) : Exists(i) /\ i \notin Touched(p)
RolledBackText(e) == Len(e) > 0 /\ e[1] = "Deployment rolled back: "

\* C1 (as claimed): when deploy returned ok and the health check of the new
\* instance returned false, then at return the old set is untouched and the
\* new instance is gone, whatever the graceful stop did, provided the forced
\* remove of the new instance would succeed.
C1_RollbackInvariant ==
  \A p \in DeployProcs :
    (Returned(p) /\ dw[p].res.status = "ok" /\ dw[p].hc = "fail"
       /\ dw[p].newc \notin removeFails)
    => (OldUntouched(p) /\ ~Exists(dw[p].newc))

\* C2 (as claimed, in the runs whose listing succeeded): when the health
\* check passes, then at return every instance the application had at the
\* start has been stopped and removed, whatever the graceful stop did,
\* provided its forced remove would succeed; the new instance exists and the
\* outcome is ok with the new instance's id.
C2_SuccessCleanup ==
  \A p \in DeployProcs :
    (Returned(p) /\ dw[p].hc = "pass" /\ "list" \notin dw[p].faults
       /\ dw[p].atStart \cap removeFails = {})
    => /\ \A i \in dw[p].atStart : i \in dw[p].removes /\ ~Exists(i)
       /\ Exists(dw[p].newc)
       /\ dw[p].ret.status = "ok"
       /\ dw[p].ret.container_id = dw[p].newc

\* C3 (as claimed, where the forced remove of the new instance would
\* succeed): no old-set instance is stopped or removed before the health
\* check returned true, and the new instance is not left in place once the
\* call has returned after a health check that returned false.
C3_SwapOrdering ==
  \A p \in DeployProcs :
    /\ (OldSet(p) \cap Touched(p) # {}) => dw[p].hc = "pass"
    /\ (Returned(p) /\ dw[p].hc = "fail" /\ dw[p].newc \notin removeFails)
         => ~Exists(dw[p].newc)

\* C6 (as claimed, for the client that cannot be obtained): the call returns
\* a Result with status failed and a non-empty error, and raises nothing.
C6_NeverPropagates ==
  \A p \in DeployProcs :
    (Returned(p) /\ "client" \in dw[p].faults)
    => (dw[p].ret.status = "failed" /\ NonEmptyText(dw[p].ret.error))

\* C7 (as claimed): deploy never raises; a failure obtaining the client,
\* running or refreshing gives status failed with the error text; an
\* unresolved host port or a gauge failure alone leaves the outcome ok.
C7_DeployNeverRaises ==
  /\ dp.ret.status # "raised"
  /\ dp.faults \cap {"client", "run", "reload"} # {}
       => (dp.ret.status = "failed" /\ dp.ret.error # NoneErr)
  /\ (dp.faults # {} /\ dp.faults \subseteq {"gauge", "port"})
       => dp.ret.status = "ok"

\* C8 (as claimed): when deploy reported ok and fetching the new instance
\* fails, a stop and a forced remove are issued against the new instance, the
\* old set is untouched and the outcome is failed.
C8_FetchFailureRollsBack ==
  \A p \in DeployProcs :
    (Returned(p) /\ dw[p].res.status = "ok" /\ "fetch" \in dw[p].faults)
    => /\ dw[p].res.container_id \in dw[p].stops
       /\ dw[p].res.container_id \in dw[p].removes
       /\ OldUntouched(p)
       /\ dw[p].ret.status = "failed"

\* C9 (as claimed): when the inner deploy returns a failed outcome,
\* deploy_with_rollback returns that same outcome unchanged and issues no
\* stop or remove.
C9_FailedOutcomeUnchanged ==
  \A p \in DeployProcs :
    (Returned(p) /\ dw[p].res.status = "failed")
    => (dw[p].ret = dw[p].res /\ Touched(p) = {})

\* C9 (amended): when the inner deploy returns a failed outcome,
\* deploy_with_rollback returns a new failed outcome whose error is
\* "Deployment rolled back: Deployment failed: " followed by the inner error
\* text, with no container id and no container port, and issues no stop or
\* remove.
C9_FailedOutcomeWrapped ==
  \A p \in DeployProcs :
    (Returned(p) /\ dw[p].res.status = "failed")
    => /\ dw[p].ret.status = "failed"
       /\ dw[p].ret.error =
            <<"Deployment rolled back: ", "Deployment failed: ">>
              \o dw[p].res.error
       /\ dw[p].ret.container_id = None
       /\ dw[p].ret.container_port = None
       /\ Touched(p) = {}

C9_Witness ==
  \E p \in DeployProcs :
    /\ Returned(p) /\ dw[p].res.status = "failed"
    /\ dw[p].res.error = <<"reload failed">>
    /\ dw[p].res.container_port = DefaultContainerPort
    /\ dw[p].old # <<>>

\* C10: the call returns ok only if deploy returned ok, the new instance was
\* fetched and the health check returned true; whenever the health check
\* returned false the outcome is failed and its error says the deployment was
\* rolled back, whether or not the stop and remove of the new instance worked.
C10_OkOnlyAfterHealthy ==
  \A p \in DeployProcs :
    /\ dw[p].ret.status = "ok"
         => (dw[p].res.status = "ok" /\ dw[p].newc # None /\ dw[p].hc = "pass")
    /\ (Returned(p) /\ dw[p].hc = "fail")
         => (dw[p].ret.status = "failed" /\ RolledBackText(dw[p].ret.error))

C10_Witness ==
  \E p \in DeployProcs :
    /\ Returned(p) /\ dw[p].hc = "fail"
    /\ "stop" \in dw[p].faults
    /\ Exists(dw[p].newc)

\* the invocations between the insert of line 98 and the discard of line 108
Releasing(h) == ch[h].pc \in {"finally", "discard"}

\* C4: for any container id at most one heal call is executing at any time,
\* across the check_health invocations of one healer; an invocation that finds
\* the id in the registry skips the container and does not call heal.
C4_AtMostOneHeal ==
  /\ [](\A h1, h2 \in HealProcs :
          (h1 # h2 /\ InHeal(h1) /\ InHeal(h2)) => Cur(h1).id # Cur(h2).id)
  /\ [][\A h \in HealProcs :
          (ch[h].pc = "insert" /\ Cur(h).id \in healing_in_progress
             /\ ch'[h] # ch[h])
          => (ch'[h].pc = "examine" /\ ch'[h].idx = ch[h].idx + 1)]_vars

C4_Witness ==
  \E h1, h2 \in HealProcs :
    /\ h1 # h2
    /\ ch[h1].pc = "heal_sleep"
    /\ Cur(h1).id \in ch[h2].skipped

\* C5: an id is in the registry at every moment a heal call for it executes;
\* it stays there no longer than the release that follows the heal call,
\* whether heal returned true, returned false or raised; and the registry is
\* empty whenever no check_health invocation is executing.
C5_RegistryMembership ==
  /\ \A h \in HealProcs : InHeal(h) => Cur(h).id \in healing_in_progress
  /\ \A id \in healing_in_progress :
       \E h \in HealProcs : (InHeal(h) \/ Releasing(h)) /\ Cur(h).id = id
  /\ (\A h \in HealProcs : ch[h].pc \in {"idle", "done"})
       => healing_in_progress = {}

C5_Witness ==
  \E h1, h2 \in HealProcs :
    /\ h1 # h2
    /\ ch[h1].pc = "done" /\ ch[h1].raised
    /\ ch[h2].pc = "done" /\ Len(ch[h2].healed) > 0
    /\ healing_in_progress = {}

\* C11: after a passed health check the call returns the ok outcome that
\* deploy produced, whatever the stop or remove of an old container did, and
\* every container of the old set got its stop call, also those after one
\* whose stop or remove failed.
C11_CleanupFailureIgnored ==
  \A p \in DeployProcs :
    (Returned(p) /\ dw[p].hc = "pass")
      => /\ dw[p].ret = dw[p].res
         /\ dw[p].ret.status = "ok"
         /\ OldSet(p) \subseteq dw[p].stops

C11_Witness ==
  \E p \in DeployProcs :
    /\ Returned(p) /\ dw[p].hc = "pass"
    /\ Len(dw[p].old) = 2
    /\ dw[p].faults \cap {"stop", "remove"} # {}
    /\ Exists(dw[p].old[1])
    /\ dw[p].old[2] \in dw[p].removes /\ ~Exists(dw[p].old[2])
    /\ dw[p].ret.status = "ok"

\* the runtime errors heal met, and the ways it can have healed
HealFaults == {"restart_notfound", "restart_error", "reload_error",
               "stop_error", "remove_error", "deploy_raised"}
DeployCalled(h) ==
  ch[h].log \cap {"deploy_ok", "deploy_failed", "deploy_raised"} # {}
HealOver(h) == ch[h].pc = "finally"

\* C12: for a container with an app label and a healer with an engine, a
\* restart that raised not-found is followed by the call of engine.deploy,
\* and heal returns true exactly when the outcome of that deploy is ok.
C12_NotFoundRedeploys ==
  \A h \in HealProcs :
    (HealOver(h) /\ "restart_notfound" \in ch[h].log
       /\ Cur(h).app # "unknown" /\ hasEngine)
      => /\ DeployCalled(h)
         /\ ~ch[h].raised
         /\ ch[h].success <=> ("deploy_ok" \in ch[h].log)

C12_Witness ==
  \E h \in HealProcs :
    /\ HealOver(h) /\ "restart_notfound" \in ch[h].log
    /\ "deploy_ok" \in ch[h].log
    /\ ch[h].success

\* C13: a heal in which restart, reload, stop, remove or engine.deploy raised
\* returns a boolean instead of raising, and a heal returns true only when
\* the restarted container was seen running or the redeploy reported ok.
C13_HealNeverRaises ==
  \A h \in HealProcs :
    HealOver(h)
      => /\ (ch[h].log \cap HealFaults # {}) => ~ch[h].raised
         /\ (~ch[h].raised /\ ch[h].success)
              => ("reload_running" \in ch[h].log \/ "deploy_ok" \in ch[h].log)

C13_Witness ==
  \E h \in HealProcs :
    /\ HealOver(h)
    /\ {"restart_error", "stop_error", "deploy_raised"} \subseteq ch[h].log
    /\ ~ch[h].raised /\ ~ch[h].success

\* C14: the loop of start is left only after cancel() was called on its
\* task; a cycle that ends without a cancellation, also one whose listing or
\* healing failed, is followed by the sleep, and the sleep by another cycle.
C14_LoopSurvivesErrors ==
  /\ [](daemon.pc = "exited" => daemon.cancelled)
  /\ [][(daemon.pc = "cycle" /\ daemon'.pc # "cycle" /\ ~daemon.cancelled)
          => daemon'.pc = "sleep"]_vars
  /\ [][(daemon.pc = "sleep" /\ daemon'.pc # "sleep" /\ ~daemon.cancelled)
          => (daemon'.pc = "cycle" /\ ch'[DaemonProc].pc = "list")]_vars

C14_Witness ==
  /\ daemon.pc = "cycle"
  /\ daemon.survived = {"list", "heal"}
  /\ ~daemon.cancelled
  /\ ch[DaemonProc].pc = "examine"

\* C15 (as claimed): a cancellation of the daemon task never ends a heal that
\* is in flight: the loop is not left by a CancelledError that came out of
\* heal, and no heal call of the daemon ends cancelled.
C15_HealNotInterrupted ==
  /\ daemon.pc = "exited" => ~ch[DaemonProc].raised
  /\ \A k \in 1..Len(ch[DaemonProc].results) :
       ch[DaemonProc].results[k].ret # "cancelled"

\* C16: the lock is held only at the check-and-insert and at the removal of
\* an id, never by an invocation whose heal call is executing.
C16_LockNotHeldInHeal ==
  \A h \in HealProcs :
    /\ healing_lock = h => ch[h].pc \in {"insert", "discard"}
    /\ InHeal(h) => healing_lock # h

C16_Witness ==
  \E h1, h2 \in HealProcs :
    /\ h1 # h2
    /\ InHeal(h1) /\ InHeal(h2)
    /\ Cur(h1).id # Cur(h2).id

\* the listing of the invocation succeeded and has only healthy containers
AllHealthy(h) ==
  /\ ch[h].listed = "ok"
  /\ \A k \in 1..Len(ch[h].listing) :
       ch[h].listing[k].status \in {"running", "restarting"}

\* C17: a cycle over a listing of running or restarting containers only
\* calls heal on nothing (so no restart, stop, remove or deploy), returns an
\* empty list, and none of its steps changes the registry.
C17_HealthySkip ==
  /\ [](\A h \in HealProcs :
          AllHealthy(h) => /\ ch[h].pc \in {"examine", "done"}
                           /\ ch[h].results = <<>>
                           /\ ch[h].healed = <<>>
                           /\ ~ch[h].raised)
  /\ [][\A h \in HealProcs :
          (AllHealthy(h) /\ ch'[h] # ch[h] /\ ch'[h].pc # "list")
            => healing_in_progress' = healing_in_progress]_vars

C17_Witness ==
  \E h \in HealProcs :
    /\ AllHealthy(h) /\ ch[h].pc = "done"
    /\ \E k \in 1..Len(ch[h].listing) : ch[h].listing[k].status = "restarting"

\* C18: a cycle whose listing failed is over at once with an empty list, has
\* called heal on nothing, and the failing step leaves the registry as it is.
C18_ListingFailure ==
  /\ [](\A h \in HealProcs :
          ch[h].listed = "failed" => /\ ch[h].pc = "done"
                                     /\ ch[h].healed = <<>>
                                     /\ ch[h].results = <<>>
                                     /\ ch[h].skipped = {}
                                     /\ ~ch[h].raised)
  /\ [][\A h \in HealProcs :
          (ch[h].pc = "list" /\ ch'[h].listed = "failed")
            => healing_in_progress' = healing_in_progress]_vars

C18_Witness ==
  \E h1, h2 \in HealProcs :
    /\ h1 # h2
    /\ ch[h1].listed = "failed" /\ ch[h1].pc = "done"
    /\ InHeal(h2) /\ healing_in_progress # {}

\* the ids of the heal calls that returned true, in the order of the calls
RECURSIVE TrueIds(_)
TrueIds(r) ==
  IF r = <<>> THEN <<>>
  ELSE IF Head(r).ret = "true" THEN <<Head(r).id>> \o TrueIds(Tail(r))
  ELSE TrueIds(Tail(r))
SeqRange(q) == {q[k] : k \in 1..Len(q)}

TrueHeals(h) ==
  Cardinality({k \in 1..Len(ch[h].results) : ch[h].results[k].ret = "true"})
RECURSIVE SumTrueHeals(_)
SumTrueHeals(S) ==
  IF S = {} THEN 0
  ELSE LET h == CHOOSE x \in S : TRUE IN TrueHeals(h) + SumTrueHeals(S \ {h})

\* C20: the heal-success counter has grown by one for every heal call that
\* returned true and by nothing else: its value is the number of heal calls
\* that returned true.
C20_CounterCountsTrueHeals == restart_counter = SumTrueHeals(HealProcs)

C20_Witness ==
  /\ restart_counter = 2
  /\ \E h \in HealProcs :
       \E k \in 1..Len(ch[h].results) : ch[h].results[k].ret = "false"

\* C21: a heal of a container without app label makes no stop, remove or
\* deploy call, and it returns true exactly when the restart succeeded and
\* the reloaded status was running.
C21_UnlabelledRestartOnly ==
  \A h \in HealProcs :
    (HealOver(h) /\ Cur(h).app = "unknown")
      => /\ ch[h].log \cap {"stop_error", "remove_error", "remove_ok",
                            "deploy_ok", "deploy_failed", "deploy_raised"} = {}
         /\ ch[h].success
              <=> ({"restart_ok", "reload_running"} \subseteq ch[h].log)

C21_Witness ==
  \E h \in HealProcs :
    /\ HealOver(h) /\ Cur(h).app = "unknown" /\ hasEngine
    /\ {"restart_ok", "reload_not_running"} \subseteq ch[h].log
    /\ ~ch[h].success /\ ~ch[h].raised

\* C24 (as claimed): no name is asked of the runtime twice, whatever the
\* time between the deploy calls.
C24_DistinctNames == ~run_names.clash

InPortRange(r) == r.out = "int" /\ 1 <= r.val /\ r.val <= MaxPort

\* C25 (as claimed): for every raw value, the host port of the outcome
\* (get_host_port) is the value parse_docker_port_mapping returns, and it is
\* none or a port in 1..65535.
C25_SameAsResolver ==
  pr.called = {"get", "parse"}
    => /\ pr.got = pr.parsed
       /\ pr.got = PortNone \/ InPortRange(pr.got)

\* C26: for every input shape parse_docker_port_mapping returns none or a
\* port in 1..65535, and no exception leaves it.
C26_ResolverTotal ==
  "parse" \in pr.called
    => /\ pr.parsed.out # "raise"
       /\ pr.parsed = PortNone \/ InPortRange(pr.parsed)

C26_Witness ==
  /\ "parse" \in pr.called
  /\ pr.raw.kind = "dict" /\ Len(pr.raw.entries) = 2
  /\ pr.raw.entries[1] = NullEntry
  /\ pr.parsed = PortSome(65535)

\* the claimed result for a mapping: the host port of the first entry whose
\* value is a non-empty list whose first record has a valid HostPort
RECURSIVE FirstValidHostPort(_)
FirstValidHostPort(entries) ==
  IF Len(entries) = 0 THEN PortNone
  ELSE LET e == Head(entries)
           n == IF ~e.null /\ Len(e.bindings) > 0 /\ e.bindings[1].has
                     /\ IsNumeric(e.bindings[1].hp)
                THEN StrToInt(e.bindings[1].hp) ELSE 0
       IN IF 1 <= n /\ n <= MaxPort THEN PortSome(n)
          ELSE FirstValidHostPort(Tail(entries))

\* C27 (as claimed): for a mapping, parse_docker_port_mapping returns the
\* host port of the first entry with a valid first record, and none only
\* when the mapping has no such entry.
C27_FirstValidEntry ==
  ("parse" \in pr.called /\ pr.raw.kind = "dict")
    => pr.parsed = FirstValidHostPort(pr.raw.entries)

\* C28 (as claimed): when a deploy_with_rollback call is interrupted after
\* its new container was created, a stop and a remove of that container have
\* been attempted by the time the call is over.
C28_InterruptRollsBack ==
  \A p \in DeployProcs :
    (Returned(p) /\ "interrupt" \in dw[p].faults)
      => /\ dw[p].res.container_id \in dw[p].stops
         /\ dw[p].res.container_id \in dw[p].removes

\* C29 (as claimed): when listing the application's containers raises at the
\* start of deploy_with_rollback, the call returns an outcome with status
\* failed and a non-empty error.
C29_ListFailureFails ==
  \A p \in DeployProcs :
    (Returned(p) /\ "list" \in dw[p].faults)
      => /\ dw[p].ret.status = "failed"
         /\ NonEmptyText(dw[p].ret.error)

\* C22 (as claimed): for a running instance with a published host port an
\* attempt of health_check yields healthy only when a probe returned a
\* status below 500.
C22_HealthyOnlyBelow500 ==
  (hk.pc = "done" /\ hk.ret = "true" /\ hk.published)
    => "lt500" \in hk.probed

\* the attempts made so far fit into the window
AttemptsBounded(h) == h.attempts > 0 => (h.attempts - 1) * h.interval < h.timeout

\* C23: health_check terminates; no exception leaves it, a false answer for
\* a container with an id comes only once the timeout has elapsed, and the
\* number of attempts is bounded by timeout/interval (rounded up).
C23_HealthCheckTerminates ==
  /\ [](/\ hk.ret # "raised"
        /\ AttemptsBounded(hk)
        /\ (hk.pc = "done" /\ hk.ret = "false" /\ hk.hasId)
             => hk.elapsed >= hk.timeout)
  /\ (hk.pc = "poll" ~> hk.pc = "done")

C23_Witness ==
  /\ hk.pc = "done" /\ hk.ret = "false" /\ hk.hasId
  /\ hk.timeout = DefaultTimeout /\ hk.interval = DefaultInterval
  /\ hk.attempts = 15
  /\ hk.log = {"reload_error", "not_running"}

\* C30: a verify_api_key call made while 5 or more failures of its identifier
\* lie inside the 300-second window answers False whatever key is presented;
\* once fewer than 5 remain inside the window the configured key is accepted
\* again.
C30_Lockout ==
  auth.last.called
    => /\ auth.last.n >= 5 => ~auth.last.ret
       /\ (auth.last.n < 5 /\ auth.last.key = "right" /\ auth.configured)
            => auth.last.ret

C30_Witness ==
  /\ auth.last.called /\ auth.last.key = "right" /\ auth.configured
  /\ auth.last.n = 5 /\ ~auth.last.ret
  /\ auth.clock = 300
  /\ Len(auth.history[auth.last.id]) = 6

\* C31: an attempt of health_check that finds the instance running with no
\* published port answers healthy, and a call for an instance without an id
\* answers unhealthy at once, with no reload and no waiting.
C31_RunningNoPortsHealthy ==
  /\ (hk.status = "running" /\ ~hk.published)
       => (hk.pc = "done" /\ hk.ret = "true")
  /\ (hk.pc # "idle" /\ ~hk.hasId)
       => /\ hk.pc = "done" /\ hk.ret = "false"
          /\ hk.attempts = 0 /\ hk.elapsed = 0 /\ hk.status = "none"

C31_Witness ==
  /\ hk.status = "running" /\ ~hk.published /\ hk.ret = "true"
  /\ hk.attempts = 3 /\ hk.log = {"reload_error", "not_running"}

\* C32: the containers a deploy_with_rollback call stops or removes are
\* containers labelled with its application that existed before its deploy,
\* or its own new container; a container of another application is never
\* among them, and neither is the new container once it passed the health
\* check.
C32_RollbackFrame ==
  \A p \in DeployProcs :
    /\ Touched(p) \subseteq
         dw[p].atStart \cup (IF dw[p].newc = None THEN {} ELSE {dw[p].newc})
    /\ dw[p].hc = "pass" => dw[p].newc \notin Touched(p)
    /\ \A i \in DOMAIN containers :
         (containers[i].app # dw[p].app /\ dw[p].pc # "idle")
           => i \notin Touched(p)

C32_Witness ==
  \E p \in DeployProcs :
    /\ Returned(p) /\ dw[p].hc = "pass"
    /\ dw[p].removes # {} /\ dw[p].removes = dw[p].atStart
    /\ \E i \in DOMAIN containers :
         containers[i].app # dw[p].app /\ containers[i].status = "running"

\* the entries among the first n of a listing that call for a heal
Unhealthy(l, n) ==
  Cardinality({k \in 1..n : l[k].status \notin {"running", "restarting"}})

\* C33: within one check_health invocation the heals run one after another:
\* while a heal runs its id is the only one in the registry and every earlier
\* unhealthy entry has had its heal; between heals the registry is empty; no
\* entry is skipped, so two unhealthy entries with one id get a heal each.
C33_HealsInSequence ==
  LET c == ch[DaemonProc] IN
  /\ c.skipped = {}
  /\ c.pc \in HealPcs
       => /\ healing_in_progress = {Cur(DaemonProc).id}
          /\ Len(c.results) = Unhealthy(c.listing, c.idx - 1)
  /\ c.pc \in {"finally", "discard"}
       => /\ healing_in_progress = {Cur(DaemonProc).id}
          /\ Len(c.results) = Unhealthy(c.listing, c.idx)
  /\ c.pc \in {"examine", "lock", "insert", "done"}
       => /\ healing_in_progress = {}
          /\ Len(c.results) = Unhealthy(c.listing, c.idx - 1)
  /\ (c.pc = "done" /\ c.listed = "ok") => c.idx = Len(c.listing) + 1

C33_Witness ==
  LET c == ch[DaemonProc] IN
  /\ c.pc = "done" /\ Len(c.listing) >= 2
  /\ c.listing[1].id = c.listing[2].id
  /\ Len(c.results) >= 2
  /\ c.results[1].id = c.results[2].id
  /\ c.results[1].ret = "true" /\ c.results[2].ret = "true"

\* C34: an Exception raised while one container of the listing is processed
\* does not end the cycle: the invocation returns only after the last entry,
\* and every unhealthy entry has had its heal.
C34_CycleSurvivesException ==
  LET c == ch[DaemonProc] IN
  (c.pc = "done" /\ \E k \in 1..Len(c.results) : c.results[k].ret = "error")
    => /\ c.idx = Len(c.listing) + 1
       /\ Len(c.results) = Unhealthy(c.listing, Len(c.listing))

C34_Witness ==
  LET c == ch[DaemonProc] IN
  /\ c.pc = "done" /\ Len(c.results) = 2
  /\ c.results[1].ret = "error" /\ c.results[2].ret = "true"
  /\ c.results[1].id # c.results[2].id
  /\ c.healed = <<c.results[2].id>>

\* C35 (as claimed): when threads call get_db_manager concurrently while no
\* manager exists, exactly one DatabaseManager is created and every call
\* returns that instance.
C35_Singleton ==
  (\A t \in DbThreads : db.th[t].pc = "done")
    => /\ db.made = 1
       /\ \A t \in DbThreads : db.th[t].ret = 1

\* C40 (as claimed): a request through require_api_key that presents the
\* valid key is accepted whenever its own client has made no failed attempt,
\* whatever other clients have done.
C40_LockoutIsolation ==
  (auth.last.called /\ auth.last.by \in Clients /\ auth.last.key = "right"
     /\ auth.configured /\ auth.last.by \notin auth.failedBy)
    => auth.last.ret

\* C39: an invocation that ended by a cancellation during its heal has taken
\* the id out of the registry: whatever the registry holds then belongs to a
\* heal of another invocation, and another invocation that comes to the
\* guard with that id is let through.
C39_ReleasedOnCancel ==
  \A h \in HealProcs :
    (ch[h].pc = "done" /\ ch[h].raised)
      => /\ \A id \in healing_in_progress :
              \E g \in HealProcs \ {h} :
                (InHeal(g) \/ Releasing(g)) /\ Cur(g).id = id
         /\ \A g \in HealProcs \ {h} :
              (ch[g].pc = "insert" /\ Cur(g).id = Cur(h).id)
                => Cur(g).id \notin healing_in_progress

C39_Witness ==
  \E h, g \in HealProcs :
    /\ h # g
    /\ ch[h].pc = "done" /\ ch[h].raised
    /\ ch[h].results[Len(ch[h].results)].ret = "cancelled"
    /\ InHeal(g) /\ Cur(g).id = Cur(h).id

\* C36: when two deploy_with_rollback calls for one application, each with a
\* passing health check, have both returned, the new container of at least
\* one ok outcome still exists.
C36_OneNewInstanceSurvives ==
  (\A p \in DeployPair : Returned(p) /\ dw[p].hc = "pass")
    => \E p \in DeployPair : dw[p].ret.status = "ok" /\ Exists(dw[p].newc)

C36_Witness ==
  \E p, q \in DeployPair :
    /\ p # q
    /\ Returned(p) /\ dw[p].hc = "pass" /\ dw[p].ret.status = "ok"
    /\ Returned(q) /\ dw[q].hc = "pass" /\ dw[q].ret.status = "ok"
    /\ dw[p].newc \in dw[q].removes /\ ~Exists(dw[p].newc)
    /\ Exists(dw[q].newc)

\* the instances a deploy_with_rollback call that met no fault leaves when it
\* runs alone: the new instance after a passed health check, the old set
\* after a rollback
LeftAlone(p) ==
  IF dw[p].hc = "pass" THEN {dw[p].newc} ELSE dw[p].atStart

\* C37 (as claimed): when a cycle of the daemon and a deploy_with_rollback
\* call for the same application have both completed, the call having got as
\* far as its health check with every one of its runtime calls answered, the
\* instances of the application are those the call alone would leave.
C37_DaemonLeavesDeployAlone ==
  \A p \in DeployProcs :
    (/\ Returned(p) /\ dw[p].hc \in {"pass", "fail"} /\ dw[p].faults = {}
     /\ daemon.pc = "sleep")
      => Labelled(containers, dw[p].app) = LeftAlone(p)

\* the application has a managed instance that check_health takes for
\* unhealthy, and none that is running
AppDown ==
  /\ \E i \in DOMAIN containers :
       containers[i].app = "a" /\ ~healthy_status(containers[i].status)
  /\ ~\E i \in DOMAIN containers :
        containers[i].app = "a" /\ containers[i].status = "running"

AppRunning ==
  \E i \in DOMAIN containers :
    containers[i].app = "a" /\ containers[i].status = "running"

\* C38 (as claimed): with a daemon loop that is scheduled fairly and a runtime
\* that answers with success from some point on, an application whose managed
\* instance is unhealthy eventually has a running instance again.
C38_Converges == AppDown ~> AppRunning

====
